---- MODULE Spec2Model ----
(***************************************************************************)
(* DynAIkonTrap: the motion-labelled queue of the live (BY_FRAME) pipeline *)
(* (DynAIkonTrap/filtering/motion_queue.py), its Sequence class and the    *)
(* classification worker MotionLabelledQueue._process_queue.               *)
(*                                                                         *)
(* The specifications share the variables:                                 *)
(*   Spec / LiveSpec  the MotionLabelledQueue: producer (put,              *)
(*                    end_motion_sequence) and the worker process          *)
(*   SpecLabel        a Sequence object driven through its labelling API   *)
(*   SpecPrio         a Sequence object driven through the                 *)
(*                    get_highest_priority / label loop of the tests       *)
(*   SpecLen          the producer side for several values of _sequence_len*)
(*   SpecRec / LiveRec  CameraToDisk.record (DynAIkonTrap/camera_to_disk.py)*)
(*                    with empty_all_buffers and the DirectoryMaker        *)
(*   SpecBuf          one RAM buffer of CameraToDisk: its writing thread   *)
(*                    against switch_stream / write_inactive_stream        *)
(*   SpecEvent        Filter._handle_input_events (filtering/filtering.py) *)
(*   SpecRemember     EventRememberer.proc_events                          *)
(*                    (filtering/remember_from_disk.py)                    *)
(*   SpecMotion       MotionFilter.run_raw / run (filtering/motion.py)     *)
(*   SpecProc         MotionRAMBuffer.analyse / _process_queue             *)
(*                    (camera_to_disk.py)                                  *)
(***************************************************************************)
EXTENDS Integers, Sequences, FiniteSets

VARIABLES
    current_sequence,   \* MotionLabelledQueue._current_sequence
    queue,              \* MotionLabelledQueue._queue (FIFO of Sequence)
    output_queue,       \* MotionLabelledQueue._output_queue (Frame or None)
    idle,               \* MotionLabelledQueue._idle (Event: set / cleared)
    remaining_frames,   \* MotionLabelledQueue._remaining_frames
    pc,                 \* position of the worker in _process_queue
    sequence,           \* worker local: the Sequence taken from the queue
    frame,              \* worker local: result of get_highest_priority()
    is_animal,          \* worker local: result of AnimalFilter.run
    inference_count,    \* worker local: classifier calls for this sequence
    nput,               \* number of frames handed to put() so far
    _sequence_len,      \* MotionLabelledQueue._sequence_len (a float: <<num, den>>)
    seq,                \* the Sequence object of SpecLabel / SpecPrio
    prev,               \* that Sequence as it was before the last call on it
    op,                 \* the last call on it: <<method name, argument>>
    ret,                \* SpecPrio: what get_highest_priority returned, per call
    stage,              \* SpecLabel / SpecPrio: position in the scenario
    rec_pc,             \* position of the record thread in CameraToDisk.record
    rec_ret,            \* where the running empty_all_buffers call returns to
    current_path,       \* record local: directory of the next / current event
    event_dir,          \* record local
    motion_start_time,  \* record local
    last_buffer_empty_t,\* record local
    now,                \* time(), counted from the start of the current event
    is_motion,          \* MotionRAMBuffer.is_motion
    c2d_output_queue,   \* CameraToDisk._output_queue: the directories put on it
    _event_counter,     \* DirectoryMaker._event_counter
    disk,               \* the event directories that exist under _base_dir
    _active_stream,     \* per buffer: which of its two streams is _active_stream
    ea_args,            \* arguments of the running empty_all_buffers call
    calls,              \* the empty_all_buffers calls of the current event
    steps,              \* what the running empty_all_buffers call has done
    buf,                \* SpecBuf: the RAM buffer followed ("h264", "raw", "motion")
    ctx,                \* its context_length_s * framerate, a float <<num, den>>
    streams,            \* the contents of its two streams (CircularIO objects)
    _bytes_written,     \* its _bytes_written
    w_ref,              \* writing thread: the stream it got as _active_stream (0: none)
    nwritten,           \* frames or motion elements written so far
    file,               \* the file of the current event: what the flushes appended
    flush,              \* the last switch_stream / write_inactive_stream call
    f_pc,               \* record thread: position in the handling of this buffer
    _event_fraction,    \* SpecEvent: Filter._event_fraction, a float <<num, den>>
    event,              \* usher local: the EventData taken from the input
    usher_pc,           \* position of the usher process in _handle_input_events
    detector_calls,     \* indexes of the frames of the event given to the detector
    result,             \* usher local: what _process_event returned
    filter_output_queue,\* Filter._output_queue
    deleted,            \* the event directories removed by _delete_event
    nevents,            \* events taken from the input so far
    pe_pc,              \* SpecRemember: position of the process proc_events
    pe_event_dir,       \* proc_events local: the directory taken from the input
    pe_count,           \* directories taken from the input so far
    er_output_queue,    \* EventRememberer._output_queue
    er_log,             \* the directories logger.error was called for
    threshold_small,    \* SpecMotion: MotionFilter.threshold_small
    threshold_sotv,     \* MotionFilter.threshold_sotv
    iir_taps,           \* tap1, tap2 of x_iir_filter and y_iir_filter
    motion_frame,       \* the frame of the test, a list of vectors [x, y]
    filtered,           \* run_raw local: the frame after the small threshold
    sotv,               \* <<x_sum, y_sum>> of the last run_raw, after the IIR filters
    mf_run,             \* what run() returned
    mf_stage,           \* position in the test
    mf_settings,        \* MotionFilter.__init__: iir_cutoff_hz (<<num, den>>), framerate
    wn,                 \* the normalised cutoff given to signal.cheby2
    mf_log,             \* the logger.error calls of MotionFilter.__init__
    _proc_queue,        \* SpecProc: MotionRAMBuffer._proc_queue (a deque)
    skip_frames,        \* _process_queue local
    count_frames,       \* _process_queue local
    nanalysed,          \* motion frames handed to analyse() so far
    pq_log              \* per frame popped: its id, its score, the time scoring took

vars == <<current_sequence, queue, output_queue, idle, remaining_frames, pc,
          sequence, frame, is_animal, inference_count, nput, _sequence_len,
          seq, prev, op, ret, stage,
          rec_pc, rec_ret, current_path, event_dir, motion_start_time,
          last_buffer_empty_t, now, is_motion, c2d_output_queue,
          _event_counter, disk, _active_stream, ea_args, calls, steps,
          buf, ctx, streams, _bytes_written, w_ref, nwritten, file, flush, f_pc,
          _event_fraction, event, usher_pc, detector_calls, result,
          filter_output_queue, deleted, nevents,
          pe_pc, pe_event_dir, pe_count, er_output_queue, er_log,
          threshold_small, threshold_sotv, iir_taps, motion_frame, filtered,
          sotv, mf_run, mf_stage, mf_settings, wn, mf_log,
          _proc_queue, skip_frames, count_frames, nanalysed, pq_log>>

qvars == <<current_sequence, queue, output_queue, idle, remaining_frames, pc,
           sequence, frame, is_animal, inference_count, nput, _sequence_len>>

svars == <<seq, prev, op, ret, stage>>

cvars == <<rec_pc, rec_ret, current_path, event_dir, motion_start_time,
           last_buffer_empty_t, now, is_motion, c2d_output_queue,
           _event_counter, disk, _active_stream, ea_args, calls, steps>>

bvars == <<buf, ctx, streams, _bytes_written, w_ref, nwritten, file, flush,
           f_pc>>

\* the variables of the specifications that follow single functions
evars == <<_event_fraction, event, usher_pc, detector_calls, result,
           filter_output_queue, deleted, nevents>>

rvars == <<pe_pc, pe_event_dir, pe_count, er_output_queue, er_log>>

mvars == <<threshold_small, threshold_sotv, iir_taps, motion_frame, filtered,
           sotv, mf_run, mf_stage, mf_settings, wn, mf_log>>

pvars == <<_proc_queue, skip_frames, count_frames, nanalysed, pq_log>>

hvars == <<evars, rvars, mvars, pvars>>

(***************************************************************************)
(* Bounds of the model and settings of the objects under analysis.         *)
(***************************************************************************)
MaxPuts == 5            \* frames the producer hands to put()
MaxFrames == 6          \* SpecLabel: frames put in the Sequence
MaxPrioFrames == 4      \* SpecPrio: frames put in the Sequence
MaxScore == 2           \* motion scores of MOTION frames are 1..MaxScore
MaxFramerate == 3       \* SpecLen: framerates are 1..MaxFramerate
MaxEvents == 2          \* SpecRec: events the record thread starts
MaxOldEvents == 2       \* SpecRec: event_0 .. may exist before the program runs
MaxAnalysed == 4         \* SpecProc: motion frames handed to analyse()
MaxFlushTime == 1       \* SpecRec: seconds a write_inactive_stream may take
MaxWrites == 4          \* SpecBuf: frames or motion elements written to the buffer
MaxFilterEvents == 1    \* SpecEvent: events the usher takes from its input
MaxEventFrames == 9     \* SpecEvent: frames of an event
MaxRememberEvents == 2  \* SpecRemember: directories proc_events takes from its input
MaxFileFrames == 1      \* SpecRemember: frames in clip.dat and in clip_vect.dat
GridCells == 2          \* SpecMotion: motion vectors of a frame

_smoothing_len == 1     \* int((settings.smoothing_factor * framerate) / 2)
_context_len == 2       \* int(settings.context_length_s * framerate)

\* The settings of Spec, SpecLabel and SpecPrio: framerate (an int) and
\* settings.max_sequence_period_s (a float, here the fraction <<num, den>>),
\* which give _sequence_len = 4.0.
framerate == 2
max_sequence_period_s == <<2, 1>>

(***************************************************************************)
(* Python values.                                                          *)
(***************************************************************************)
None == <<>>

\* A reference to an object is the one-element tuple of what identifies it.
Ref(x) == <<x>>

\* bool(t) of a tuple t: a tuple is true iff it is not empty.
PyTruthy(t) == Len(t) > 0

\* The result of a call F(e) whose argument is evaluated once, before the
\* call: Result({F(x) : x \in {e}}).
Result(S) == CHOOSE r \in S : TRUE

\* int * float and int >= float, a float being the fraction <<num, den>>
\* with den > 0
PyMul(n, x) == <<n * x[1], x[2]>>

PyGe(n, x) == n * x[2] >= x[1]

Min(a, b) == IF a <= b THEN a ELSE b
Max(a, b) == IF a >= b THEN a ELSE b

\* The 0-based positions selected by the slice [start:stop] of a list of
\* length n (negative bounds count from the end, all bounds are clipped).
PySlice(n, start, stop) ==
    LET norm(x) == IF x < 0 THEN Max(n + x, 0) ELSE Min(x, n)
    IN  {i \in 0..(n - 1) : norm(start) <= i /\ i < norm(stop)}

(***************************************************************************)
(* class MotionStatus, class Label, class LabelledFrame                    *)
(***************************************************************************)
MotionStatus == {"STILL", "MOTION", "UNKNOWN"}
Label == {"EMPTY", "ANIMAL", "UNKNOWN", "CONTEXT"}

LabelledFrame(f, index, priority, status) ==
    [frame |-> f, index |-> index, priority |-> priority,
     label |-> "UNKNOWN", motion_status |-> status]

(***************************************************************************)
(* class Sequence                                                          *)
(***************************************************************************)
\* Sequence.__init__
Sequence(smoothing_len, context_len) ==
    [_frames |-> <<>>, smoothing_len |-> smoothing_len,
     context_len |-> context_len, labelled |-> FALSE, _next_index |-> 0]

\* len(sequence)
__len__(s) == Len(s._frames)

\* self._frames[i], i a 0-based position
At(s, i) == s._frames[i + 1]

\* Sequence._label: the frames at the positions P get label val and
\* priority -1; labelled is set once no frame is UNKNOWN.
_label(s, P, val) ==
    LET fs == [k \in 1..Len(s._frames) |->
                 IF (k - 1) \in P
                 THEN [s._frames[k] EXCEPT !.label = val, !.priority = -1]
                 ELSE s._frames[k]]
    IN  [s EXCEPT !._frames = fs,
                  !.labelled = IF \A k \in 1..Len(fs) : fs[k].label # "UNKNOWN"
                               THEN TRUE ELSE s.labelled]

\* Sequence.get_first_animal_index
get_first_animal_index(s) ==
    LET A == {i \in 0..(__len__(s) - 1) : At(s, i).label = "ANIMAL"}
    IN  IF A = {} THEN 0 ELSE CHOOSE i \in A : \A j \in A : i <= j

\* Sequence.get_last_animal_index
get_last_animal_index(s) ==
    LET A == {i \in 0..(__len__(s) - 1) : At(s, i).label = "ANIMAL"}
    IN  IF A = {} THEN __len__(s) ELSE CHOOSE i \in A : \A j \in A : j <= i

\* Sequence.add_context
add_context(s) ==
    LET first_animal_frame_index == get_first_animal_index(s)
        last_animal_frame_index == get_last_animal_index(s)
        n == __len__(s)
        hstop == first_animal_frame_index
        hstart == Max(first_animal_frame_index - s.context_len, 0)
        s1 == _label(s, PySlice(n, hstart, hstop), "CONTEXT")
        tstart == last_animal_frame_index
        tstop == Min(tstart + s.context_len, n)
    IN  _label(s1, PySlice(n, tstart + 1, tstop), "CONTEXT")

\* label_as_animal with the slice end taken exclusive (the "+ 1" lost): the
\* fault C6 has to detect.
label_as_animal_m(s, p) ==
    LET frame_index == At(s, p).index
        start == Max(frame_index - s.smoothing_len, 0)
        stop == Min(frame_index + s.smoothing_len, __len__(s))
    IN  _label(s, PySlice(__len__(s), start, stop), "ANIMAL")

\* Sequence.label_as_animal; p is the position of the frame object passed
label_as_animal(s, p) ==
    LET frame_index == At(s, p).index
        start == Max(frame_index - s.smoothing_len, 0)
        stop == Min(frame_index + s.smoothing_len, __len__(s))
    IN  _label(s, PySlice(__len__(s), start, stop + 1), "ANIMAL")

\* Sequence.label_as_empty; p is the position of the frame object passed
label_as_empty(s, p) == _label(s, {p}, "EMPTY")

\* close_gaps with "<" for "<=" in the test of the gap length: the fault C8
\* has to detect.
RECURSIVE close_gaps_from_m(_, _, _, _)
close_gaps_from_m(s, i, last_animal, current_gap) ==
    IF i >= __len__(s) THEN s
    ELSE IF At(s, i).label = "ANIMAL"
         THEN LET rest(s1) == close_gaps_from_m(s1, i + 1, Ref(i), 0)
              IN  Result({rest(s1) : s1 \in
                            {IF current_gap < s.smoothing_len * 2
                             THEN _label(s, PySlice(__len__(s), i - current_gap, i),
                                         "ANIMAL")
                             ELSE s}})
         ELSE IF At(s, i).label = "EMPTY" \/ At(s, i).label = "UNKNOWN"
              THEN close_gaps_from_m(s, i + 1, last_animal,
                                     IF last_animal # None THEN current_gap + 1
                                                           ELSE current_gap)
              ELSE close_gaps_from_m(s, i + 1, last_animal, current_gap)

\* Sequence.close_gaps: one iteration of the loop per call, from position i,
\* with the loop's locals last_animal (None or a position) and current_gap.
RECURSIVE close_gaps_from(_, _, _, _)
close_gaps_from(s, i, last_animal, current_gap) ==
    IF i >= __len__(s) THEN s
    ELSE IF At(s, i).label = "ANIMAL"
         THEN LET rest(s1) == close_gaps_from(s1, i + 1, Ref(i), 0)
              IN  Result({rest(s1) : s1 \in
                            {IF current_gap <= s.smoothing_len * 2
                             THEN _label(s, PySlice(__len__(s), i - current_gap, i),
                                         "ANIMAL")
                             ELSE s}})
         ELSE IF At(s, i).label = "EMPTY" \/ At(s, i).label = "UNKNOWN"
              THEN close_gaps_from(s, i + 1, last_animal,
                                   IF last_animal # None THEN current_gap + 1
                                                         ELSE current_gap)
              ELSE close_gaps_from(s, i + 1, last_animal, current_gap)

close_gaps(s) == close_gaps_from(s, 0, None, 0)

\* put that leaves _next_index as it is: the fault C13 has to detect.
Sequence_put_m(s, f, motion_score, status) ==
    [s EXCEPT !._frames = Append(@, LabelledFrame(f, s._next_index,
                                                  motion_score, status))]

\* Sequence.put
Sequence_put(s, f, motion_score, status) ==
    [s EXCEPT !._frames = Append(@, LabelledFrame(f, s._next_index,
                                                  motion_score, status)),
              !._next_index = @ + 1]

\* max() that keeps the last of the frames of maximal priority: the fault C2
\* has to detect.
RECURSIVE py_max_from_m(_, _, _)
py_max_from_m(s, i, best) ==
    IF i >= __len__(s) THEN best
    ELSE py_max_from_m(s, i + 1,
                       IF At(s, i).priority >= At(s, best).priority THEN i ELSE best)

\* max(self._frames, key=priority): position of the first frame of maximal
\* priority, scanning from position i with the best position so far.
RECURSIVE py_max_from(_, _, _)
py_max_from(s, i, best) ==
    IF i >= __len__(s) THEN best
    ELSE py_max_from(s, i + 1,
                     IF At(s, i).priority > At(s, best).priority THEN i ELSE best)

\* Sequence.get_highest_priority: None or a reference to the frame's position
get_highest_priority(s) ==
    LET highest_priority_frame == py_max_from(s, 1, 0)
    IN  IF At(s, highest_priority_frame).motion_status = "STILL"
        THEN None
        ELSE Ref(highest_priority_frame)

\* get_animal_or_context_frames that forgets the CONTEXT frames (what
\* get_animal_frames returns): the fault C1 has to detect.
get_animal_or_context_frames_m(s) ==
    SelectSeq(s._frames, LAMBDA lf : lf.label = "ANIMAL")

\* Sequence.get_animal_or_context_frames (the list of LabelledFrame)
get_animal_or_context_frames(s) ==
    SelectSeq(s._frames, LAMBDA lf : lf.label \in {"ANIMAL", "CONTEXT"})

\* Sequence.has_motion
has_motion(s) ==
    \E i \in 0..(__len__(s) - 1) : At(s, i).motion_status = "MOTION"

(***************************************************************************)
(* camera_to_disk.py: class DirectoryMaker                                 *)
(***************************************************************************)
\* An event directory _base_dir/"event_<n>" is identified by its number n.
\* DirectoryMaker.get_event on (_event_counter, the directories on disk):
\* new_event() until the path does not exist, then mkdir; the path returned
\* and the new values of the two.
\* get_event that returns the path of the counter as it is: no new_event(),
\* no test of the disk, no mkdir
get_event_m(counter, d) ==
    [path |-> Ref(counter), _event_counter |-> counter, disk |-> d]

RECURSIVE get_event(_, _)
get_event(counter, d) ==
    IF counter \in d
    THEN get_event(counter + 1, d)
    ELSE [path |-> Ref(counter), _event_counter |-> counter + 1,
          disk |-> d \cup {counter}]

(***************************************************************************)
(* camera_to_disk.py: class CameraToDisk, the record thread                *)
(***************************************************************************)
\* settings, in seconds
_maximum_event_length_s == 4    \* filter_settings.processing.max_sequence_period_s
_buffer_secs == 2               \* camera_settings.io_buffer_size_s
_context_length_s == 1          \* filter_settings.processing.context_length_s

\* the three RAM buffers, in the order empty_all_buffers handles them
Buffers == <<"h264", "raw", "motion">>

\* the stream of buffer b that is its _inactive_stream
_inactive_stream(b) == 3 - _active_stream[b]

\* entry of empty_all_buffers(path, start), called from the place `site` of
\* record(), which the call returns to at `back`
empty_all_buffers(path, start, site, back) ==
    /\ ea_args' = [current_path |-> path, start |-> start]
    /\ calls' = Append(IF site = "start" THEN <<>> ELSE calls,
                       [current_path |-> path, start |-> start, site |-> site,
                        t |-> now'])
    /\ steps' = <<>>
    /\ rec_ret' = back
    /\ rec_pc' = "switch_h264"

\* current_path = self._directory_maker.get_event()[0]; start_recording;
\* camera warm-up
R_Init ==
    /\ rec_pc = "init"
    /\ LET e == get_event(_event_counter, disk)
       IN  /\ current_path' = e.path
           /\ _event_counter' = e._event_counter
           /\ disk' = e.disk
    /\ rec_pc' = "wait"
    /\ UNCHANGED <<rec_ret, event_dir, motion_start_time, last_buffer_empty_t,
                   now, is_motion, c2d_output_queue, _active_stream, ea_args,
                   calls, steps>>
    /\ UNCHANGED <<qvars, svars, bvars, hvars>>

\* while self._on: wait_recording(1); if is_motion: the event starts with
\* empty_all_buffers(current_path, start=True).  Without motion the pass
\* changes nothing.
R_Wait ==
    /\ rec_pc = "wait"
    /\ is_motion
    /\ Len(c2d_output_queue) < MaxEvents
    /\ event_dir' = current_path
    /\ now' = now
    /\ motion_start_time' = now'
    /\ last_buffer_empty_t' = now'
    /\ empty_all_buffers(current_path, TRUE, "start", "loop")
    /\ UNCHANGED <<current_path, is_motion, c2d_output_queue, _event_counter,
                   disk, _active_stream>>
    /\ UNCHANGED <<qvars, svars, bvars, hvars>>

\* x.switch_stream() of empty_all_buffers, x being Buffers[k]; steps logs
\* the operations of the running call: a switch with the stream it made
\* inactive, a write with the stream it read, the directory of its file and
\* its is_start (the two are left None and FALSE in the entry of a switch).
E_Switch(k) ==
    /\ rec_pc = "switch_" \o Buffers[k]
    /\ _active_stream' = [_active_stream EXCEPT ![Buffers[k]] = 3 - @]
    /\ steps' = Append(steps, [op |-> "switch_stream", buffer |-> Buffers[k],
                                stream |-> _active_stream[Buffers[k]],
                                path |-> None, is_start |-> FALSE])
    /\ rec_pc' = IF k < Len(Buffers) THEN "switch_" \o Buffers[k + 1]
                                     ELSE "write_" \o Buffers[1]
    /\ UNCHANGED <<rec_ret, current_path, event_dir, motion_start_time,
                   last_buffer_empty_t, now, is_motion, c2d_output_queue,
                   _event_counter, disk, ea_args, calls>>
    /\ UNCHANGED <<qvars, svars, bvars, hvars>>

\* E_Write that reads the active stream
E_Write_m(k, d) ==
    /\ rec_pc = "write_" \o Buffers[k]
    /\ steps' = Append(steps, [op |-> "write_inactive_stream",
                                buffer |-> Buffers[k],
                                stream |-> _active_stream[Buffers[k]],
                                path |-> ea_args.current_path,
                                is_start |-> ea_args.start])
    /\ now' = now + d
    /\ rec_pc' = IF k < Len(Buffers) THEN "write_" \o Buffers[k + 1] ELSE rec_ret
    /\ UNCHANGED <<rec_ret, current_path, event_dir, motion_start_time,
                   last_buffer_empty_t, is_motion, c2d_output_queue,
                   _event_counter, disk, _active_stream, ea_args, calls>>
    /\ UNCHANGED <<qvars, svars, bvars, hvars>>

\* x.write_inactive_stream(filename, is_start) of empty_all_buffers, x being
\* Buffers[k]; writing takes d seconds; the last one returns to record()
E_Write(k, d) ==
    /\ rec_pc = "write_" \o Buffers[k]
    /\ steps' = Append(steps, [op |-> "write_inactive_stream",
                                buffer |-> Buffers[k],
                                stream |-> _inactive_stream(Buffers[k]),
                                path |-> ea_args.current_path,
                                is_start |-> ea_args.start])
    /\ now' = now + d
    /\ rec_pc' = IF k < Len(Buffers) THEN "write_" \o Buffers[k + 1] ELSE rec_ret
    /\ UNCHANGED <<rec_ret, current_path, event_dir, motion_start_time,
                   last_buffer_empty_t, is_motion, c2d_output_queue,
                   _event_counter, disk, _active_stream, ea_args, calls>>
    /\ UNCHANGED <<qvars, svars, bvars, hvars>>

\* R_Loop with the periodic flush called with start=True
R_Loop_m ==
    /\ rec_pc = "loop"
    /\ IF is_motion /\ (now - motion_start_time) < _maximum_event_length_s
       THEN IF 4 * (now - last_buffer_empty_t) > 3 * _buffer_secs
            THEN /\ last_buffer_empty_t' = now
                 /\ now' = now
                 /\ empty_all_buffers(current_path, TRUE, "loop", "loop_wait")
            ELSE /\ rec_pc' = "loop_wait"
                 /\ UNCHANGED <<last_buffer_empty_t, now, rec_ret, ea_args,
                                calls, steps>>
       ELSE /\ rec_pc' = "trail_off"
            /\ UNCHANGED <<last_buffer_empty_t, now, rec_ret, ea_args, calls,
                           steps>>
    /\ UNCHANGED <<current_path, event_dir, motion_start_time, is_motion,
                   c2d_output_queue, _event_counter, disk, _active_stream>>
    /\ UNCHANGED <<qvars, svars, bvars, hvars>>

\* the test of the inner while loop and, inside it, the periodic flush
R_Loop ==
    /\ rec_pc = "loop"
    /\ IF is_motion /\ (now - motion_start_time) < _maximum_event_length_s
       THEN IF 4 * (now - last_buffer_empty_t) > 3 * _buffer_secs
            THEN /\ last_buffer_empty_t' = now
                 /\ now' = now
                 /\ empty_all_buffers(current_path, FALSE, "loop", "loop_wait")
            ELSE /\ rec_pc' = "loop_wait"
                 /\ UNCHANGED <<last_buffer_empty_t, now, rec_ret, ea_args,
                                calls, steps>>
       ELSE /\ rec_pc' = "trail_off"
            /\ UNCHANGED <<last_buffer_empty_t, now, rec_ret, ea_args, calls,
                           steps>>
    /\ UNCHANGED <<current_path, event_dir, motion_start_time, is_motion,
                   c2d_output_queue, _event_counter, disk, _active_stream>>
    /\ UNCHANGED <<qvars, svars, bvars, hvars>>

\* R_LoopWait in which no time passes
R_LoopWait_m ==
    /\ rec_pc = "loop_wait"
    /\ rec_pc' = "loop"
    /\ UNCHANGED <<rec_ret, current_path, event_dir, motion_start_time,
                   last_buffer_empty_t, now, is_motion, c2d_output_queue,
                   _event_counter, disk, _active_stream, ea_args, calls, steps>>
    /\ UNCHANGED <<qvars, svars, bvars, hvars>>

\* self._camera.wait_recording(1) at the end of the loop body
R_LoopWait ==
    /\ rec_pc = "loop_wait"
    /\ now' = now + 1
    /\ rec_pc' = "loop"
    /\ UNCHANGED <<rec_ret, current_path, event_dir, motion_start_time,
                   last_buffer_empty_t, is_motion, c2d_output_queue,
                   _event_counter, disk, _active_stream, ea_args, calls, steps>>
    /\ UNCHANGED <<qvars, svars, bvars, hvars>>

\* wait_recording(self._context_length_s), then the last
\* empty_all_buffers(current_path, start=False)
R_TrailOff ==
    /\ rec_pc = "trail_off"
    /\ now' = now + _context_length_s
    /\ empty_all_buffers(current_path, FALSE, "final", "put")
    /\ UNCHANGED <<current_path, event_dir, motion_start_time,
                   last_buffer_empty_t, is_motion, c2d_output_queue,
                   _event_counter, disk, _active_stream>>
    /\ UNCHANGED <<qvars, svars, bvars, hvars>>

\* self._output_queue.put(event_dir)
R_Put ==
    /\ rec_pc = "put"
    /\ c2d_output_queue' = Append(c2d_output_queue, event_dir)
    /\ rec_pc' = "next"
    /\ UNCHANGED <<rec_ret, current_path, event_dir, motion_start_time,
                   last_buffer_empty_t, now, is_motion, _event_counter, disk,
                   _active_stream, ea_args, calls, steps>>
    /\ UNCHANGED <<qvars, svars, bvars, hvars>>

\* current_path = self._directory_maker.get_event()[0]; the times of the
\* event are not read again and the clock starts again from 0.
R_Next ==
    /\ rec_pc = "next"
    /\ LET e == get_event(_event_counter, disk)
       IN  /\ current_path' = e.path
           /\ _event_counter' = e._event_counter
           /\ disk' = e.disk
    /\ now' = 0
    /\ motion_start_time' = 0
    /\ last_buffer_empty_t' = 0
    /\ rec_pc' = "wait"
    /\ UNCHANGED <<rec_ret, event_dir, is_motion, c2d_output_queue,
                   _active_stream, ea_args, calls, steps>>
    /\ UNCHANGED <<qvars, svars, bvars, hvars>>

Record ==
    \/ R_Init
    \/ R_Wait
    \/ \E k \in 1..Len(Buffers) : E_Switch(k)
    \/ \E k \in 1..Len(Buffers), d \in 0..MaxFlushTime : E_Write(k, d)
    \/ R_Loop
    \/ R_LoopWait
    \/ R_TrailOff
    \/ R_Put
    \/ R_Next

\* MotionRAMBuffer._process_queue sets is_motion from the score of each
\* frame it processes: the flag changes at any time.
MotionChange ==
    /\ is_motion' = ~is_motion
    /\ UNCHANGED <<rec_pc, rec_ret, current_path, event_dir, motion_start_time,
                   last_buffer_empty_t, now, c2d_output_queue, _event_counter,
                   disk, _active_stream, ea_args, calls, steps>>
    /\ UNCHANGED <<qvars, svars, bvars, hvars>>

\* Filter._delete_event removes the directory of an event it got from the
\* output queue and discarded.
DeleteEvent ==
    /\ \E k \in 1..Len(c2d_output_queue) :
          /\ c2d_output_queue[k][1] \in disk
          /\ disk' = disk \ {c2d_output_queue[k][1]}
    /\ UNCHANGED <<rec_pc, rec_ret, current_path, event_dir, motion_start_time,
                   last_buffer_empty_t, now, is_motion, c2d_output_queue,
                   _event_counter, _active_stream, ea_args, calls, steps>>
    /\ UNCHANGED <<qvars, svars, bvars, hvars>>

\* CameraToDisk.__init__ with the event directories `old` on disk; the
\* record thread has been started and has not run yet
CameraToDisk__init__(old) ==
    /\ rec_pc = "init"
    /\ rec_ret = "none"
    /\ current_path = None
    /\ event_dir = None
    /\ motion_start_time = 0
    /\ last_buffer_empty_t = 0
    /\ now = 0
    /\ is_motion = FALSE
    /\ c2d_output_queue = <<>>
    /\ _event_counter = 0
    /\ disk = old
    /\ _active_stream = [b \in {Buffers[k] : k \in 1..Len(Buffers)} |-> 1]
    /\ ea_args = None
    /\ calls = <<>>
    /\ steps = <<>>

CInit == CameraToDisk__init__({})

(***************************************************************************)
(* camera_to_disk.py: the RAM buffers (VideoRAMBuffer, H264RAMBuffer,      *)
(* RawRAMBuffer, MotionRAMBuffer).  SpecBuf follows one buffer object: the *)
(* thread that writes into it and the record thread that switches and      *)
(* empties it.                                                             *)
(***************************************************************************)
\* len(pack("d", 0.0)) * 2 + rows * cols * itemsize, in bytes, for the
\* smallest grid
_element_size == 2

\* what a stream holds before it drops its oldest chunks: a video stream
\* VideoSize frames, a motion stream MotionSeconds * framerate elements
VideoSize == 4
MotionSize == _element_size * 3

\* int(round(x)) of a float x >= 0: Python rounds halves to the even integer
PyRound(x) ==
    LET q == x[1] \div x[2]
        r == x[1] % x[2]
    IN  IF 2 * r < x[2] THEN q
        ELSE IF 2 * r > x[2] THEN q + 1
        ELSE IF q % 2 = 0 THEN q ELSE q + 1

\* max(0, n - x) of an int n and a float x
PyMaxZeroSub(n, x) ==
    IF n * x[2] > x[1] THEN <<n * x[2] - x[1], x[2]>> ELSE <<0, 1>>

\* int(x) of a float x >= 0
PyInt(x) == x[1] \div x[2]

PyAbs(n) == IF n >= 0 THEN n ELSE 0 - n

\* the data of one write: a video frame is one element of its stream, a
\* motion element is _element_size bytes of its stream
Chunk(b, id, frame_type) ==
    IF b = "motion"
    THEN [k \in 1.._element_size |-> [id |-> id, byte |-> k]]
    ELSE <<[id |-> id, frame_type |-> frame_type]>>

\* CircularIO.write at the end of the stream: the chunk is appended and
\* whole chunks are removed from the start until the size is within the
\* limit
RECURSIVE CircularIO_trim(_, _, _)
CircularIO_trim(data, chunk_len, size) ==
    IF Len(data) > size
    THEN CircularIO_trim(SubSeq(data, chunk_len + 1, Len(data)), chunk_len, size)
    ELSE data

CircularIO_write(b, data, chunk) ==
    CircularIO_trim(data \o chunk, Len(chunk),
                    IF b = "motion" THEN MotionSize ELSE VideoSize)

\* the part of a stream from position pos to its end, which the read1 loop
\* of write_inactive_stream appends to the file
ReadFrom(data, pos) == SubSeq(data, pos + 1, Len(data))

\* context_index = int(round(max(0, len(lst_frames) - context_length_s *
\* framerate))), c being the product
context_index(data, c) == PyRound(PyMaxZeroSub(Len(data), c))

\* the indexes of the SPS-header frames of a stream
sps_frames(data) ==
    {i \in 0..(Len(data) - 1) : data[i + 1].frame_type = "sps_header"}

\* get_closest_frame: min() over sps_frames in index order with the key
\* abs(index - context_index) returns the first of the nearest ones
get_closest_frame(ci, sps) ==
    CHOOSE i \in sps :
       \A j \in sps : \/ PyAbs(i - ci) < PyAbs(j - ci)
                      \/ (PyAbs(i - ci) = PyAbs(j - ci) /\ i <= j)

\* write_inactive_stream of the three classes on the inactive stream `data`,
\* up to the call of clear_inactive_stream: what is appended to the file,
\* whether logger.error was called and whether an exception leaves the
\* method.
H264RAMBuffer_write_inactive_stream(data, is_start, c) ==
    IF is_start
    THEN IF sps_frames(data) # {}
         THEN [out |-> ReadFrom(data, get_closest_frame(context_index(data, c),
                                                        sps_frames(data))),
               logged |-> FALSE, raised |-> FALSE]
         ELSE [out |-> <<>>, logged |-> FALSE, raised |-> FALSE]
    ELSE [out |-> ReadFrom(data, 0), logged |-> FALSE, raised |-> FALSE]

\* lst_frames[context_index] raises IndexError when the index is not in the
\* list; nothing catches it
RawRAMBuffer_write_inactive_stream(data, is_start, c) ==
    IF is_start
    THEN IF context_index(data, c) >= Len(data)
         THEN [out |-> <<>>, logged |-> FALSE, raised |-> TRUE]
         ELSE [out |-> ReadFrom(data, context_index(data, c)),
               logged |-> FALSE, raised |-> FALSE]
    ELSE [out |-> ReadFrom(data, 0), logged |-> FALSE, raised |-> FALSE]

\* current_pos = tell() is the length of the stream; context_pos =
\* max(0, int(current_pos - _element_size * context_len_s * framerate));
\* seek(context_pos) does not fail for a position >= 0
MotionRAMBuffer_write_inactive_stream(data, is_start, c) ==
    IF is_start
    THEN [out |-> ReadFrom(data, PyInt(PyMaxZeroSub(Len(data),
                                                   PyMul(_element_size, c)))),
          logged |-> FALSE, raised |-> FALSE]
    ELSE [out |-> ReadFrom(data, 0), logged |-> FALSE, raised |-> FALSE]

write_inactive_stream(b, data, is_start, c) ==
    IF b = "h264" THEN H264RAMBuffer_write_inactive_stream(data, is_start, c)
    ELSE IF b = "raw" THEN RawRAMBuffer_write_inactive_stream(data, is_start, c)
    ELSE MotionRAMBuffer_write_inactive_stream(data, is_start, c)

\* the frame types the camera writes into buffer b
FrameTypes(b) == IF b = "h264" THEN {"sps_header", "frame"} ELSE {"frame"}

\* The writing thread (the camera's encoder thread calling
\* VideoRAMBuffer.write, or MotionRAMBuffer._process_queue) evaluates
\* self._active_stream; _process_queue has set is_motion before it, when it
\* computed the score of the frame.
B_Load ==
    /\ w_ref = 0
    /\ nwritten < MaxWrites
    /\ w_ref' = _active_stream[buf]
    /\ IF buf = "motion" THEN is_motion' \in BOOLEAN ELSE is_motion' = is_motion
    /\ UNCHANGED <<buf, ctx, streams, _bytes_written, nwritten, file, flush,
                   f_pc>>
    /\ UNCHANGED <<rec_pc, rec_ret, current_path, event_dir, motion_start_time,
                   last_buffer_empty_t, now, c2d_output_queue, _event_counter,
                   disk, _active_stream, ea_args, calls, steps>>
    /\ UNCHANGED <<qvars, svars, hvars>>

\* ... and writes to the stream it got: self._bytes_written +=
\* stream.write(buf)
B_Write(frame_type) ==
    /\ w_ref # 0
    /\ frame_type \in FrameTypes(buf)
    /\ LET chunk == Chunk(buf, nwritten + 1, frame_type)
       IN  /\ streams' = [streams EXCEPT ![w_ref] =
                             CircularIO_write(buf, @, chunk)]
           /\ _bytes_written' = _bytes_written + Len(chunk)
    /\ nwritten' = nwritten + 1
    /\ w_ref' = 0
    /\ UNCHANGED <<buf, ctx, file, flush, f_pc>>
    /\ UNCHANGED <<cvars, qvars, svars, hvars>>

\* switch_stream: the active and the inactive stream change places
switch_stream(active) == 3 - active

\* empty_all_buffers(current_path, start) reaches x.switch_stream() of this
\* buffer.  A call with start=True is the first one of an event: the call
\* before it, the last one of the event before, had start=False, and
\* current_path is a directory new_event() has just made, so the file the
\* flushes of the event append to starts empty.  The first call record()
\* makes is one with start=True.
F_Switch(start) ==
    /\ f_pc = "switch"
    /\ start => ~flush.is_start
    /\ flush.outcome = "none" => start
    /\ _active_stream' = [_active_stream EXCEPT ![buf] = switch_stream(@)]
    /\ file' = IF start THEN <<>> ELSE file
    /\ flush' = [is_start |-> start, pre |-> <<>>, before |-> Len(file'),
                 logged |-> FALSE, outcome |-> "switched"]
    /\ f_pc' = "write"
    /\ UNCHANGED <<buf, ctx, streams, _bytes_written, w_ref, nwritten>>
    /\ UNCHANGED <<rec_pc, rec_ret, current_path, event_dir, motion_start_time,
                   last_buffer_empty_t, now, is_motion, c2d_output_queue,
                   _event_counter, disk, ea_args, calls, steps>>
    /\ UNCHANGED <<qvars, svars, hvars>>

\* x.write_inactive_stream(filename, is_start) up to clear_inactive_stream;
\* an exception ends the record thread (record() has no except clause)
F_Write ==
    /\ f_pc = "write"
    /\ LET data == streams[_inactive_stream(buf)]
           r == write_inactive_stream(buf, data, flush.is_start, ctx)
       IN  /\ file' = file \o r.out
           /\ flush' = [flush EXCEPT !.pre = data, !.logged = r.logged,
                           !.outcome = IF r.raised THEN "raised" ELSE "written"]
           /\ f_pc' = IF r.raised THEN "dead" ELSE "clear"
    /\ UNCHANGED <<buf, ctx, streams, _bytes_written, w_ref, nwritten>>
    /\ UNCHANGED <<cvars, qvars, svars, hvars>>

\* clear_inactive_stream and the return of write_inactive_stream
F_Clear ==
    /\ f_pc = "clear"
    /\ streams' = [streams EXCEPT ![_inactive_stream(buf)] = <<>>]
    /\ flush' = [flush EXCEPT !.outcome = "returned"]
    /\ f_pc' = "switch"
    /\ UNCHANGED <<buf, ctx, _bytes_written, w_ref, nwritten, file>>
    /\ UNCHANGED <<cvars, qvars, svars, hvars>>

\* context_length_s * framerate (H264, motion) or * _raw_framerate (raw)
Contexts == {<<1, 1>>, <<3, 2>>, <<2, 1>>}

\* the buffer object b after __init__, for a context of c frames
RAMBuffer__init__(b, c) ==
    /\ buf = b
    /\ ctx = c
    /\ streams = [s \in 1..2 |-> <<>>]
    /\ _bytes_written = 0
    /\ w_ref = 0
    /\ nwritten = 0
    /\ file = <<>>
    /\ flush = [is_start |-> FALSE, pre |-> <<>>, before |-> 0,
                logged |-> FALSE, outcome |-> "none"]
    /\ f_pc = "switch"

BInit == RAMBuffer__init__("h264", <<1, 1>>)

(***************************************************************************)
(* filtering.py: class Filter in BY_EVENT mode.  SpecEvent follows the     *)
(* usher process _handle_input_events.                                     *)
(***************************************************************************)
\* settings.processing.detector_fraction
Fractions == {<<0, 1>>, <<1, 2>>, <<1, 1>>}

\* An EventData: dir is the number of its directory, raw_raster_frames the
\* list of its frames, a frame being given by what AnimalFilter.run returns
\* for it, the tuple (animal, human).
EventData(dir, animal, human) ==
    [dir |-> dir,
     raw_raster_frames |-> [i \in 1..Len(animal) |-> <<animal[i], human>>]]

\* linspace(0, n - 1, nr)[i], a float
linspace(n, nr, i) == IF nr = 1 THEN <<0, 1>> ELSE <<i * (n - 1), nr - 1>>

\* indices = [int(round(index)) for index in linspace(0, len(frames) - 1,
\* nr_elements)] with nr_elements = int(round(len(frames) * fraction))
indices(n, fraction) ==
    LET nr_elements == PyRound(PyMul(n, fraction))
    IN  [i \in 1..nr_elements |-> PyRound(linspace(n, nr_elements, i - 1))]

\* list.sort(key=lambda x: abs(middle_idx - x[0])): a stable sort
RECURSIVE sort_from_centre(_, _)
sort_from_centre(lst, middle_idx) ==
    IF lst = <<>> THEN <<>>
    ELSE LET k == CHOOSE k \in 1..Len(lst) :
                     \A j \in 1..Len(lst) :
                        \/ PyAbs(middle_idx - lst[k]) < PyAbs(middle_idx - lst[j])
                        \/ /\ PyAbs(middle_idx - lst[k]) = PyAbs(middle_idx - lst[j])
                           /\ k <= j
         IN  <<lst[k]>> \o
             sort_from_centre(SubSeq(lst, 1, k - 1) \o SubSeq(lst, k + 1, Len(lst)),
                              middle_idx)

\* the for loop of _process_event over lst from its position i: is_animal =
\* self._animal_filter.run(frame), a tuple; `if is_animal:` tests the tuple
RECURSIVE spiral_out(_, _, _, _)
spiral_out(frames, lst, i, called) ==
    IF i > Len(lst)
    THEN [called |-> called, result |-> Ref(FALSE), raised |-> FALSE]
    ELSE IF PyTruthy(frames[lst[i] + 1])
         THEN [called |-> Append(called, lst[i]), result |-> Ref(TRUE),
               raised |-> FALSE]
         ELSE spiral_out(frames, lst, i + 1, Append(called, lst[i]))

\* Filter._process_event(event): the indexes of the frames given to the
\* animal detector, in the order of the calls, the value returned, and
\* whether an exception leaves the method (frames[middle_idx] of an empty
\* list is an IndexError)
_process_event(ev, fraction) ==
    LET frames == ev.raw_raster_frames
        middle_idx == Len(frames) \div 2
    IN  IF fraction[1] <= 0
        THEN IF middle_idx >= Len(frames)
             THEN [called |-> <<>>, result |-> None, raised |-> TRUE]
             ELSE [called |-> <<middle_idx>>, result |-> frames[middle_idx + 1],
                   raised |-> FALSE]
        ELSE spiral_out(frames,
                        sort_from_centre(indices(Len(frames), fraction),
                                         middle_idx),
                        1, <<>>)

\* `not result` of Python; a bool b is held as <<b>>, the tuple (animal,
\* human) as <<animal, human>>
PyNot(x) == IF Len(x) = 1 THEN ~x[1] ELSE ~PyTruthy(x)

\* event = self._input_queue.get()
U_Get(ev) ==
    /\ usher_pc = "get"
    /\ nevents < MaxFilterEvents
    /\ ev.dir = nevents
    /\ event' = ev
    /\ nevents' = nevents + 1
    /\ detector_calls' = <<>>
    /\ usher_pc' = "process"
    /\ UNCHANGED <<_event_fraction, result, filter_output_queue, deleted>>
    /\ UNCHANGED <<qvars, svars, cvars, bvars, rvars, mvars, pvars>>

\* result = self._process_event(event); an exception other than Empty ends
\* the process
U_Process ==
    /\ usher_pc = "process"
    /\ LET r == _process_event(event, _event_fraction)
       IN  /\ detector_calls' = r.called
           /\ result' = r.result
           /\ usher_pc' = IF r.raised THEN "dead" ELSE "decide"
    /\ UNCHANGED <<_event_fraction, event, nevents, filter_output_queue,
                   deleted>>
    /\ UNCHANGED <<qvars, svars, cvars, bvars, rvars, mvars, pvars>>

\* if not result: self._delete_event(event) else: self._output_queue.put(event)
U_Decide ==
    /\ usher_pc = "decide"
    /\ IF PyNot(result)
       THEN /\ deleted' = deleted \cup {event.dir}
            /\ UNCHANGED filter_output_queue
       ELSE /\ filter_output_queue' = Append(filter_output_queue, event)
            /\ UNCHANGED deleted
    /\ usher_pc' = "get"
    /\ UNCHANGED <<_event_fraction, event, nevents, detector_calls, result>>
    /\ UNCHANGED <<qvars, svars, cvars, bvars, rvars, mvars, pvars>>

\* Filter.__init__ for an EventRememberer and a detector_fraction
Filter__init__(fraction) ==
    /\ _event_fraction = fraction
    /\ event = None
    /\ usher_pc = "get"
    /\ detector_calls = <<>>
    /\ result = None
    /\ filter_output_queue = <<>>
    /\ deleted = {}
    /\ nevents = 0

EInit == Filter__init__(<<1, 1>>)

(***************************************************************************)
(* remember_from_disk.py: class EventRememberer.  SpecRemember follows the *)
(* process proc_events.                                                    *)
(***************************************************************************)
\* How reading a file of an event directory goes: all its frames are read,
\* or open() raises IOError, or a read raises IOError after `read` frames.
FileCases(n) ==
    {[frames |-> n, error |-> "none", read |-> n],
     [frames |-> n, error |-> "open", read |-> 0]} \cup
    {[frames |-> n, error |-> "read", read |-> k] : k \in 0..n}

\* the directories CameraToDisk may hand over: clip.dat and clip_vect.dat
\* with up to MaxFileFrames frames each
EventDirs ==
    {[dir |-> dir, raw |-> r, vect |-> v] :
        dir \in 0..(MaxRememberEvents - 1),
        r \in UNION {FileCases(n) : n \in 0..MaxFileFrames},
        v \in UNION {FileCases(n) : n \in 0..MaxFileFrames}}

\* a local variable that no statement has assigned (the lists are given by
\* their lengths)
Unbound == 0 - 1

\* EventRememberer.dir_to_event(dir): the locals at the return statement,
\* whether logger.error was called, and whether an exception leaves the
\* method: the return statement reads motion_vector_frames and event_time,
\* which are assigned inside the try block after clip.dat has been read
\* (UnboundLocalError when reading clip.dat raised IOError).
dir_to_event(d) ==
    LET raw_failed == d.raw.error # "none"
        vect_failed == ~raw_failed /\ d.vect.error # "none"
        raw_raster_frames == d.raw.read
        motion_vector_frames == IF raw_failed THEN Unbound ELSE d.vect.read
    IN  [logged |-> raw_failed \/ vect_failed,
         raised |-> motion_vector_frames = Unbound,
         event |-> [motion_vector_frames |-> motion_vector_frames,
                    raw_raster_frames |-> raw_raster_frames,
                    dir |-> d.dir]]

\* event_dir = self._input_queue.get()
P_Get(d) ==
    /\ pe_pc = "get"
    /\ pe_count < MaxRememberEvents
    /\ d.dir = pe_count
    /\ pe_event_dir' = d
    /\ pe_count' = pe_count + 1
    /\ pe_pc' = "put"
    /\ UNCHANGED <<er_output_queue, er_log>>
    /\ UNCHANGED <<qvars, svars, cvars, bvars, evars, mvars, pvars>>

\* self._output_queue.put(self.dir_to_event(event_dir)); only Empty is
\* caught, any other exception ends the process
P_Put ==
    /\ pe_pc = "put"
    /\ LET r == dir_to_event(pe_event_dir)
       IN  /\ er_log' = IF r.logged THEN Append(er_log, pe_event_dir.dir)
                        ELSE er_log
           /\ IF r.raised
              THEN /\ pe_pc' = "dead"
                   /\ UNCHANGED er_output_queue
              ELSE /\ pe_pc' = "get"
                   /\ er_output_queue' = Append(er_output_queue, r.event)
    /\ UNCHANGED <<pe_event_dir, pe_count>>
    /\ UNCHANGED <<qvars, svars, cvars, bvars, evars, mvars, pvars>>

\* EventRememberer.__init__
EventRememberer__init__ ==
    /\ pe_pc = "get"
    /\ pe_event_dir = None
    /\ pe_count = 0
    /\ er_output_queue = <<>>
    /\ er_log = <<>>

(***************************************************************************)
(* motion.py: class MotionFilter, and iir.py.  SpecMotion runs a fresh     *)
(* filter on a frame as the tests do: run_raw(frame), then run(frame).     *)
(***************************************************************************)
\* The SOS coefficients signal.cheby2 returns for iir_order 3: two
\* second-order sections, with integer values standing for the Chebyshev
\* coefficients
sos == <<[b0 |-> 1, b1 |-> 2, b2 |-> 1, a1 |-> -1, a2 |-> 1],
         [b0 |-> 1, b1 |-> 1, b2 |-> 0, a1 |-> -1, a2 |-> 0]>>

\* IIR2Filter.filter(x) of the section with the coefficients c on the taps
\* [tap1, tap2]: the output and the new taps
IIR2Filter_filter(c, taps, x) ==
    LET x1 == x - c.a1 * taps.tap1
        x2 == x1 - c.a2 * taps.tap2
    IN  [output |-> c.b1 * taps.tap1 + c.b2 * taps.tap2 + x2 * c.b0,
         taps |-> [tap1 |-> x2, tap2 |-> taps.tap1]]

\* IIRFilter.filter(x): x goes through the sections in turn
IIRFilter_filter(taps, x) ==
    LET s1 == IIR2Filter_filter(sos[1], taps[1], x)
        s2 == IIR2Filter_filter(sos[2], taps[2], s1.output)
    IN  [output |-> s2.output, taps |-> <<s1.taps, s2.taps>>]

\* a thresholding that keeps the vectors of magnitude equal to the threshold
mf_filtered_m(fr, thr) ==
    [i \in 1..Len(fr) |->
        IF fr[i].x * fr[i].x + fr[i].y * fr[i].y >= thr * thr
        THEN fr[i] ELSE [x |-> 0, y |-> 0]]

\* np.where(magnitudes > threshold_small, motion_frame, (0, 0, 0)); the
\* magnitude of (x, y) is sqrt(x * x + y * y)
mf_filtered(fr, thr) ==
    [i \in 1..Len(fr) |->
        IF fr[i].x * fr[i].x + fr[i].y * fr[i].y > thr * thr
        THEN fr[i] ELSE [x |-> 0, y |-> 0]]

RECURSIVE SumX(_, _)
SumX(fr, i) == IF i > Len(fr) THEN 0 ELSE fr[i].x + SumX(fr, i + 1)

RECURSIVE SumY(_, _)
SumY(fr, i) == IF i > Len(fr) THEN 0 ELSE fr[i].y + SumY(fr, i + 1)

\* MotionFilter.run_raw(motion_frame) on the taps of the two IIR filters:
\* the filtered frame, the two filtered sums (the value returned is
\* sqrt(x_sum ** 2 + y_sum ** 2)) and the new taps
run_raw(taps, fr, thr) ==
    LET kept == mf_filtered(fr, thr)
        fx == IIRFilter_filter(taps.x, SumX(kept, 1))
        fy == IIRFilter_filter(taps.y, SumY(kept, 1))
    IN  [filtered |-> kept, x_sum |-> fx.output, y_sum |-> fy.output,
         taps |-> [x |-> fx.taps, y |-> fy.taps]]

\* self._run_raw = self._motion_filter.run_raw(input)
M_RunRaw ==
    /\ mf_stage = "run_raw"
    /\ LET r == run_raw(iir_taps, motion_frame, threshold_small)
       IN  /\ filtered' = r.filtered
           /\ sotv' = <<r.x_sum, r.y_sum>>
           /\ iir_taps' = r.taps
    /\ mf_stage' = "run"
    /\ UNCHANGED <<threshold_small, threshold_sotv, motion_frame, mf_run,
                   mf_settings, wn, mf_log>>
    /\ UNCHANGED <<qvars, svars, cvars, bvars, evars, rvars, pvars>>

\* self._run = self._motion_filter.run(input): run_raw(...) >= threshold_sotv
M_Run ==
    /\ mf_stage = "run"
    /\ LET r == run_raw(iir_taps, motion_frame, threshold_small)
       IN  /\ filtered' = r.filtered
           /\ sotv' = <<r.x_sum, r.y_sum>>
           /\ iir_taps' = r.taps
           /\ mf_run' = Ref(r.x_sum * r.x_sum + r.y_sum * r.y_sum >=
                            threshold_sotv * threshold_sotv)
    /\ mf_stage' = "done"
    /\ UNCHANGED <<threshold_small, threshold_sotv, motion_frame, mf_settings,
                   wn, mf_log>>
    /\ UNCHANGED <<qvars, svars, cvars, bvars, evars, rvars, pvars>>

\* the components of the motion vectors of the frames tried
Components == {0, 3, 4}

\* the frames of GridCells vectors
MotionFrames == [1..GridCells -> [x : Components, y : Components]]

\* A normalised cutoff is held as <<num, den, e>>, the value num / den +
\* e * 1e-10: the two replacement values of __init__ are 1e-10 = <<0, 1, 1>>
\* and 1 - 1e-10 = <<1, 1, -1>>.
\* wn(fc) == fc / (framerate / 2), for fc the fraction <<num, den>> and
\* the framerate rate
wn_of(fc, rate) == <<2 * fc[1], fc[2] * rate, 0>>

\* the capping that lets a cutoff at the Nyquist frequency through
cap_wn_m(w) ==
    IF w[1] <= 0 THEN [wn |-> <<0, 1, 1>>, log |-> <<"too low">>]
    ELSE IF w[1] > w[2] THEN [wn |-> <<1, 1, -1>>, log |-> <<"too high">>]
    ELSE [wn |-> w, log |-> <<>>]

\* "Ensure wn is capped to the necessary bounds": the value given to
\* signal.cheby2 and the logger.error calls made
cap_wn(w) ==
    IF w[1] <= 0 THEN [wn |-> <<0, 1, 1>>, log |-> <<"too low">>]
    ELSE IF w[1] >= w[2] THEN [wn |-> <<1, 1, -1>>, log |-> <<"too high">>]
    ELSE [wn |-> w, log |-> <<>>]

\* MotionFilter.__init__ for the two thresholds, settings.iir_cutoff_hz and
\* the framerate, and the frame of the test
MotionFilter__init__(small, sotv_thr, cutoff, rate, fr) ==
    /\ threshold_small = small
    /\ threshold_sotv = sotv_thr
    /\ mf_settings = [iir_cutoff_hz |-> cutoff, framerate |-> rate]
    /\ wn = cap_wn(wn_of(cutoff, rate)).wn
    /\ mf_log = cap_wn(wn_of(cutoff, rate)).log
    /\ iir_taps = [x |-> [s \in 1..Len(sos) |-> [tap1 |-> 0, tap2 |-> 0]],
                   y |-> [s \in 1..Len(sos) |-> [tap1 |-> 0, tap2 |-> 0]]]
    /\ motion_frame = fr
    /\ filtered = None
    /\ sotv = None
    /\ mf_run = None
    /\ mf_stage = "run_raw"

MInit ==
    MotionFilter__init__(10, 300, <<2, 1>>, 20,
                         [i \in 1..GridCells |-> [x |-> 0, y |-> 0]])

(***************************************************************************)
(* camera_to_disk.py: MotionRAMBuffer.analyse and _process_queue            *)
(***************************************************************************)
\* MotionRAMBuffer.__init__: the process queue is empty and the locals of
\* _process_queue have their first values
MotionRAMBuffer__init__ ==
    /\ _proc_queue = <<>>
    /\ skip_frames = 0
    /\ count_frames = 0
    /\ nanalysed = 0
    /\ pq_log = <<>>

\* deque([], maxlen=100): the model keeps the behaviour of the bounded deque
\* with a shorter length in place of 100
maxlen == 3

\* deque.append(x) on a deque with maxlen: once it is full the item at the
\* left end is discarded
deque_append(d, x) ==
    IF Len(d) >= maxlen THEN Append(Tail(d), x) ELSE Append(d, x)

\* the motion data the camera hands over: a frame without motion and one
\* with the same vector in every cell
ProcFrames ==
    {[i \in 1..GridCells |-> [x |-> 0, y |-> 0]],
     [i \in 1..GridCells |-> [x |-> 4, y |-> 4]]}

\* (end - start) / self._target_time, the time one run_raw call takes, as a
\* fraction of the target time
ElapsedRatios == {<<1, 2>>, <<5, 4>>, <<5, 2>>}

\* MotionRAMBuffer.analyse(motion), called by the camera for each frame
analyse(motion) ==
    /\ nanalysed < MaxAnalysed
    /\ nanalysed' = nanalysed + 1
    /\ _proc_queue' = deque_append(_proc_queue,
                                   [id |-> nanalysed + 1, motion |-> motion])
    /\ UNCHANGED <<skip_frames, count_frames, pq_log>>
    /\ UNCHANGED <<qvars, svars, cvars, bvars, evars, rvars, mvars>>

\* a score that is 0 for a frame that was not scored
score_of_m(scored, score2) == IF scored THEN score2 ELSE 0

\* motion_score = -1.0 unless the frame is scored; a computed score, which
\* is sqrt(x_sum ** 2 + y_sum ** 2), is held as its square score2
score_of(scored, score2) == IF scored THEN score2 ELSE 0 - 1

\* One pass of the loop of _process_queue with a frame in the queue, the
\* scoring taking ratio * _target_time: the record written holds the id of
\* the frame and its score (an empty queue makes popleft raise IndexError,
\* which is caught: the pass changes nothing).
_process_queue(ratio) ==
    /\ _proc_queue # <<>>
    /\ LET popped == Head(_proc_queue)
           scored == count_frames >= skip_frames
           r == run_raw(iir_taps, popped.motion, threshold_small)
           score2 == r.x_sum * r.x_sum + r.y_sum * r.y_sum
           score == score_of(scored, score2)
       IN  /\ _proc_queue' = Tail(_proc_queue)
           /\ motion_frame' = popped.motion
           /\ IF scored
              THEN /\ filtered' = r.filtered
                   /\ sotv' = <<r.x_sum, r.y_sum>>
                   /\ iir_taps' = r.taps
                   /\ is_motion' = (score2 > threshold_sotv * threshold_sotv)
                   /\ skip_frames' = PyRound(ratio)
                   /\ count_frames' = 1
              ELSE /\ UNCHANGED <<filtered, sotv, iir_taps, is_motion,
                                  skip_frames>>
                   /\ count_frames' = count_frames + 1
           /\ streams' = [streams EXCEPT ![_active_stream["motion"]] =
                             CircularIO_trim(Append(@, [id |-> popped.id,
                                                        score |-> score]),
                                             1, MotionSize \div _element_size)]
           /\ _bytes_written' = _bytes_written + _element_size
           /\ pq_log' = Append(pq_log,
                               [id |-> popped.id, score |-> score,
                                elapsed |-> IF scored THEN ratio ELSE None])
    /\ UNCHANGED <<nanalysed, threshold_small, threshold_sotv, mf_run, mf_stage,
                   mf_settings, wn, mf_log>>
    /\ UNCHANGED <<buf, ctx, w_ref, nwritten, file, flush, f_pc>>
    /\ UNCHANGED <<rec_pc, rec_ret, current_path, event_dir, motion_start_time,
                   last_buffer_empty_t, now, c2d_output_queue, _event_counter,
                   disk, _active_stream, ea_args, calls, steps>>
    /\ UNCHANGED <<qvars, svars, evars, rvars>>

\* initial values of the variables of the single-function specifications
HInit == EInit /\ EventRememberer__init__ /\ MInit /\ MotionRAMBuffer__init__

(***************************************************************************)
(* class AnimalFilter                                                      *)
(***************************************************************************)
\* AnimalFilter.run returns the tuple (animal detected, human detected);
\* the detector's answer for an image is not determined by the model.
AnimalFilter_run == {<<animal, human>> : animal \in BOOLEAN, human \in BOOLEAN}

(***************************************************************************)
(* class MotionLabelledQueue: the producer side                            *)
(***************************************************************************)
\* What Filter._handle_input_frames passes to put(): a MOTION frame with its
\* motion score (at least the positive threshold), a STILL frame with -1.0.
PutInputs ==
    {<<score, "MOTION">> : score \in 1..MaxScore} \cup {<<-1, "STILL">>}

\* end_motion_sequence without the has_motion() test: the fault C10 has to
\* detect.
end_motion_sequence_m(cur, q, rem) ==
    LET current_len == __len__(cur)
    IN  IF current_len > 0
        THEN [cur |-> Sequence(_smoothing_len, _context_len),
              q   |-> Append(q, cur),
              rem |-> rem + current_len]
        ELSE [cur |-> cur, q |-> q, rem |-> rem]

\* MotionLabelledQueue.end_motion_sequence on the fields
\* (_current_sequence, _queue, _remaining_frames); the new values of the three.
end_motion_sequence(cur, q, rem) ==
    LET current_len == __len__(cur)
    IN  IF current_len > 0
        THEN [cur |-> Sequence(_smoothing_len, _context_len),
              q   |-> IF has_motion(cur) THEN Append(q, cur) ELSE q,
              rem |-> rem + current_len]
        ELSE [cur |-> cur, q |-> q, rem |-> rem]

\* put that ends the sequence only once it is longer than _sequence_len
\* (">" for ">="): the fault C11 has to detect.
MotionLabelledQueue_put_m(cur, q, rem, f, motion_score, motion_status) ==
    LET cs == Sequence_put(cur, f, motion_score, motion_status)
    IN  IF __len__(cs) * _sequence_len[2] > _sequence_len[1]
        THEN end_motion_sequence(cs, q, rem)
        ELSE [cur |-> cs, q |-> q, rem |-> rem]

\* MotionLabelledQueue.put on the same fields (_idle is cleared by the action)
MotionLabelledQueue_put(cur, q, rem, f, motion_score, motion_status) ==
    LET cs == Sequence_put(cur, f, motion_score, motion_status)
    IN  IF PyGe(__len__(cs), _sequence_len)
        THEN end_motion_sequence(cs, q, rem)
        ELSE [cur |-> cs, q |-> q, rem |-> rem]

Put(motion_score, motion_status) ==
    /\ nput < MaxPuts
    /\ nput' = nput + 1
    /\ idle' = FALSE
    /\ LET e == MotionLabelledQueue_put(current_sequence, queue, remaining_frames,
                                        Ref(nput + 1), motion_score, motion_status)
       IN  /\ current_sequence' = e.cur
           /\ queue' = e.q
           /\ remaining_frames' = e.rem
    /\ UNCHANGED <<output_queue, pc, sequence, frame, is_animal, inference_count,
                   _sequence_len>>
    /\ UNCHANGED svars
    /\ UNCHANGED cvars
    /\ UNCHANGED <<bvars, hvars>>

\* Filter._handle_input_frames calls end_motion_sequence() when the camera
\* queue raises Empty.
EndMotionSequence ==
    /\ UNCHANGED <<output_queue, idle, pc, sequence, frame, is_animal,
                   inference_count, nput, _sequence_len>>
    /\ LET e == end_motion_sequence(current_sequence, queue, remaining_frames)
       IN  /\ current_sequence' = e.cur
           /\ queue' = e.q
           /\ remaining_frames' = e.rem
    /\ UNCHANGED svars
    /\ UNCHANGED cvars
    /\ UNCHANGED <<bvars, hvars>>

(***************************************************************************)
(* MotionLabelledQueue._process_queue: the worker process                  *)
(***************************************************************************)
\* inference_count is only read to average the inference time; the model
\* merges all values above the longest sequence of Spec.
MaxInference == 5

\* classify that tests the animal element of the tuple the detector returns
classify_m(s, fr, count, r) ==
    LET after(s1) == [sequence |-> s1,
                      frame |-> get_highest_priority(s1),
                      inference_count |-> Min(count + 1, MaxInference)]
    IN  Result({after(s1) : s1 \in {IF r[1] THEN label_as_animal(s, fr[1])
                                             ELSE label_as_empty(s, fr[1])}})

\* one pass of the body of "while frame:" on the worker's locals
\* (sequence, frame, inference_count), for the classifier's answer r
classify(s, fr, count, r) ==
    LET after(s1) == [sequence |-> s1,
                      frame |-> get_highest_priority(s1),
                      inference_count |-> Min(count + 1, MaxInference)]
    IN  Result({after(s1) : s1 \in {IF PyTruthy(r) THEN label_as_animal(s, fr[1])
                                                    ELSE label_as_empty(s, fr[1])}})

\* the list handed to _output_queue.put, item by item
output_items(s) ==
    LET aoc == get_animal_or_context_frames(s)
        output == [k \in 1..Len(aoc) |-> aoc[k].frame]
    IN  output \o (IF Len(output) > 0 THEN <<None>> ELSE <<>>)

\* a get() that takes the sequence queued last: the fault C16 has to detect.
W_Get_m ==
    /\ pc = "get"
    /\ queue # <<>>
    /\ sequence' = queue[Len(queue)]
    /\ queue' = SubSeq(queue, 1, Len(queue) - 1)
    /\ pc' = "clear"
    /\ UNCHANGED <<current_sequence, output_queue, idle, remaining_frames,
                   frame, is_animal, inference_count, nput,
                   _sequence_len>>
    /\ UNCHANGED svars
    /\ UNCHANGED cvars
    /\ UNCHANGED <<bvars, hvars>>

\* sequence = self._queue.get()
W_Get ==
    /\ pc = "get"
    /\ queue # <<>>
    /\ sequence' = Head(queue)
    /\ queue' = Tail(queue)
    /\ pc' = "clear"
    /\ UNCHANGED <<current_sequence, output_queue, idle, remaining_frames,
                   frame, is_animal, inference_count, nput,
                   _sequence_len>>
    /\ UNCHANGED svars
    /\ UNCHANGED cvars
    /\ UNCHANGED <<bvars, hvars>>

\* self._idle.clear(); inference_count = 0; first get_highest_priority()
W_Clear ==
    /\ pc = "clear"
    /\ idle' = FALSE
    /\ inference_count' = 0
    /\ frame' = get_highest_priority(sequence)
    /\ pc' = "loop"
    /\ UNCHANGED <<current_sequence, queue, output_queue, remaining_frames,
                   sequence, is_animal, nput,
                   _sequence_len>>
    /\ UNCHANGED svars
    /\ UNCHANGED cvars
    /\ UNCHANGED <<bvars, hvars>>

\* while frame: one classifier call, the label and the next frame
W_Run ==
    /\ pc = "loop"
    /\ frame # None
    /\ \E r \in AnimalFilter_run :
          LET c == classify(sequence, frame, inference_count, r)
          IN  /\ is_animal' = r
              /\ sequence' = c.sequence
              /\ frame' = c.frame
              /\ inference_count' = c.inference_count
    /\ UNCHANGED <<current_sequence, queue, output_queue, idle,
                   remaining_frames, pc, nput,
                   _sequence_len>>
    /\ UNCHANGED svars
    /\ UNCHANGED cvars
    /\ UNCHANGED <<bvars, hvars>>

\* the loop has ended: close_gaps() and add_context()
W_Finish ==
    /\ pc = "loop"
    /\ frame = None
    /\ sequence' = Result({add_context(s1) : s1 \in {close_gaps(sequence)}})
    /\ pc' = "output"
    /\ UNCHANGED <<current_sequence, queue, output_queue, idle,
                   remaining_frames, frame, is_animal, inference_count, nput,
                   _sequence_len>>
    /\ UNCHANGED svars
    /\ UNCHANGED cvars
    /\ UNCHANGED <<bvars, hvars>>

\* [self._output_queue.put(f) for f in output]
W_Output ==
    /\ pc = "output"
    /\ output_queue' = output_queue \o output_items(sequence)
    /\ pc' = "set"
    /\ UNCHANGED <<current_sequence, queue, idle, remaining_frames, sequence,
                   frame, is_animal, inference_count, nput,
                   _sequence_len>>
    /\ UNCHANGED svars
    /\ UNCHANGED cvars
    /\ UNCHANGED <<bvars, hvars>>

\* self._idle.set()
W_Set ==
    /\ pc = "set"
    /\ idle' = TRUE
    /\ pc' = "dec"
    /\ UNCHANGED <<current_sequence, queue, output_queue, remaining_frames,
                   sequence, frame, is_animal, inference_count, nput,
                   _sequence_len>>
    /\ UNCHANGED svars
    /\ UNCHANGED cvars
    /\ UNCHANGED <<bvars, hvars>>

\* self._remaining_frames.value -= len(sequence)
W_Dec ==
    /\ pc = "dec"
    /\ remaining_frames' = remaining_frames - __len__(sequence)
    /\ pc' = "get"
    /\ UNCHANGED <<current_sequence, queue, output_queue, idle, sequence,
                   frame, is_animal, inference_count, nput,
                   _sequence_len>>
    /\ UNCHANGED svars
    /\ UNCHANGED cvars
    /\ UNCHANGED <<bvars, hvars>>

\* MotionLabelledQueue.is_idle(), as another process of the program gets it
is_idle == (Len(queue) = 0) /\ idle

Worker == W_Get \/ W_Clear \/ W_Run \/ W_Finish \/ W_Output \/ W_Set \/ W_Dec

\* MotionLabelledQueue.__init__ for a framerate and a
\* settings.max_sequence_period_s; the worker has not taken a sequence yet
MotionLabelledQueue__init__(fr, period) ==
    /\ _sequence_len = PyMul(fr, period)
    /\ current_sequence = Sequence(_smoothing_len, _context_len)
    /\ queue = <<>>
    /\ output_queue = <<>>
    /\ idle = TRUE
    /\ remaining_frames = 0
    /\ pc = "get"
    /\ sequence = None
    /\ frame = None
    /\ is_animal = None
    /\ inference_count = 0
    /\ nput = 0

QInit == MotionLabelledQueue__init__(framerate, max_sequence_period_s)

Init ==
    /\ QInit
    /\ CInit
    /\ BInit
    /\ HInit
    /\ seq = None
    /\ prev = None
    /\ op = None
    /\ ret = <<>>
    /\ stage = "none"

Next ==
    \/ \E inp \in PutInputs : Put(inp[1], inp[2])
    \/ EndMotionSequence
    \/ Worker

Spec == Init /\ [][Next]_vars

\* The worker is a process of its own: whenever it can take a step it
\* eventually does.
LiveSpec == Spec /\ WF_vars(Worker)

(***************************************************************************)
(* SpecLen: the producer side of the MotionLabelledQueue for several       *)
(* framerates and values of settings.max_sequence_period_s; their product  *)
(* is a float and need not be a whole number of frames.                    *)
(***************************************************************************)
\* settings.max_sequence_period_s: 0.5 s, 1.0 s, 1.5 s
Periods == {<<1, 2>>, <<1, 1>>, <<3, 2>>}

LenInit ==
    /\ \E fr \in 1..MaxFramerate, period \in Periods :
          MotionLabelledQueue__init__(fr, period)
    /\ CInit
    /\ BInit
    /\ HInit
    /\ seq = None
    /\ prev = None
    /\ op = None
    /\ ret = <<>>
    /\ stage = "none"

LenNext ==
    \/ \E inp \in PutInputs : Put(inp[1], inp[2])
    \/ EndMotionSequence

SpecLen == LenInit /\ [][LenNext]_vars

(***************************************************************************)
(* SpecLabel: one Sequence driven as the unit tests drive it: frames are   *)
(* put, then frames are labelled in any order, then close_gaps() and       *)
(* add_context() are called ("add_context should only be called ... after  *)
(* close_gaps()").                                                         *)
(***************************************************************************)
Positions(s) == 0..(__len__(s) - 1)

SeqPut ==
    /\ stage = "put"
    /\ __len__(seq) < MaxFrames
    /\ seq' = Sequence_put(seq, Ref(__len__(seq)), 1, "MOTION")
    /\ prev' = seq
    /\ op' = <<"put">>
    /\ UNCHANGED <<ret, stage>>
    /\ UNCHANGED qvars
    /\ UNCHANGED cvars
    /\ UNCHANGED <<bvars, hvars>>

SeqLabelAsAnimal(p) ==
    /\ stage \in {"put", "label"}
    /\ p \in Positions(seq)
    /\ seq' = label_as_animal(seq, p)
    /\ prev' = seq
    /\ op' = <<"label_as_animal", p>>
    /\ stage' = "label"
    /\ UNCHANGED ret
    /\ UNCHANGED qvars
    /\ UNCHANGED cvars
    /\ UNCHANGED <<bvars, hvars>>

SeqLabelAsEmpty(p) ==
    /\ stage \in {"put", "label"}
    /\ p \in Positions(seq)
    /\ seq' = label_as_empty(seq, p)
    /\ prev' = seq
    /\ op' = <<"label_as_empty", p>>
    /\ stage' = "label"
    /\ UNCHANGED ret
    /\ UNCHANGED qvars
    /\ UNCHANGED cvars
    /\ UNCHANGED <<bvars, hvars>>

SeqCloseGaps ==
    /\ stage \in {"put", "label"}
    /\ seq' = close_gaps(seq)
    /\ prev' = seq
    /\ op' = <<"close_gaps">>
    /\ stage' = "closed"
    /\ UNCHANGED ret
    /\ UNCHANGED qvars
    /\ UNCHANGED cvars
    /\ UNCHANGED <<bvars, hvars>>

SeqAddContext ==
    /\ stage \in {"put", "label", "closed"}
    /\ seq' = add_context(seq)
    /\ prev' = seq
    /\ op' = <<"add_context">>
    /\ stage' = "context"
    /\ UNCHANGED ret
    /\ UNCHANGED qvars
    /\ UNCHANGED cvars
    /\ UNCHANGED <<bvars, hvars>>

LabelInit ==
    /\ QInit
    /\ CInit
    /\ BInit
    /\ HInit
    /\ seq = Sequence(_smoothing_len, _context_len)
    /\ prev = None
    /\ op = None
    /\ ret = <<>>
    /\ stage = "put"

LabelNext ==
    \/ SeqPut
    \/ \E p \in 0..(MaxFrames - 1) : SeqLabelAsAnimal(p)
    \/ \E p \in 0..(MaxFrames - 1) : SeqLabelAsEmpty(p)
    \/ SeqCloseGaps
    \/ SeqAddContext

SpecLabel == LabelInit /\ [][LabelNext]_vars

(***************************************************************************)
(* SpecPrio: one Sequence driven through the loop of the worker and of     *)
(* test_correct_order: frames are put, then get_highest_priority() is      *)
(* called repeatedly, each time followed by labelling the returned frame.  *)
(***************************************************************************)
\* calls of get_highest_priority the scenario makes
MaxCalls == MaxPrioFrames + 2

PrioPut(motion_score, motion_status) ==
    /\ stage = "put"
    /\ __len__(seq) < MaxPrioFrames
    /\ seq' = Sequence_put(seq, Ref(__len__(seq)), motion_score, motion_status)
    /\ prev' = seq
    /\ op' = <<"put">>
    /\ UNCHANGED <<ret, stage>>
    /\ UNCHANGED qvars
    /\ UNCHANGED cvars
    /\ UNCHANGED <<bvars, hvars>>

\* current_frame = get_highest_priority(); the returned LabelledFrame (as it
\* is when returned) is recorded; if it is a frame, that frame is labelled.
PrioCall ==
    /\ stage \in {"put", "loop"}
    /\ __len__(seq) > 0
    /\ Len(ret) < MaxCalls
    /\ LET r == get_highest_priority(seq)
       IN  /\ ret' = Append(ret, IF r = None THEN None ELSE Ref(At(seq, r[1])))
           /\ seq' = IF r = None THEN seq ELSE label_as_empty(seq, r[1])
    /\ prev' = seq
    /\ op' = <<"get_highest_priority">>
    /\ stage' = "loop"
    /\ UNCHANGED qvars
    /\ UNCHANGED cvars
    /\ UNCHANGED <<bvars, hvars>>

PrioInit ==
    /\ QInit
    /\ CInit
    /\ BInit
    /\ HInit
    /\ seq = Sequence(_smoothing_len, _context_len)
    /\ prev = None
    /\ op = None
    /\ ret = <<>>
    /\ stage = "put"

PrioNext ==
    \/ \E inp \in PutInputs : PrioPut(inp[1], inp[2])
    \/ PrioCall

SpecPrio == PrioInit /\ [][PrioNext]_vars

(***************************************************************************)
(* SpecRec: the record thread of CameraToDisk, the motion flag changing    *)
(* under it and discarded events being deleted from disk.                  *)
(***************************************************************************)
RecInit ==
    /\ \E old \in SUBSET (0..(MaxOldEvents - 1)) : CameraToDisk__init__(old)
    /\ BInit
    /\ HInit
    /\ QInit
    /\ seq = None
    /\ prev = None
    /\ op = None
    /\ ret = <<>>
    /\ stage = "none"

RecNext ==
    \/ Record
    \/ MotionChange
    \/ DeleteEvent

SpecRec == RecInit /\ [][RecNext]_vars

\* The record thread is a thread of its own: whenever it can take a step it
\* eventually does.
LiveRec == SpecRec /\ WF_vars(Record)

(***************************************************************************)
(* SpecBuf: one RAM buffer of CameraToDisk, its writing thread and the     *)
(* record thread calling switch_stream and write_inactive_stream on it.    *)
(***************************************************************************)
BufInit ==
    /\ \E b \in {Buffers[k] : k \in 1..Len(Buffers)}, c \in Contexts :
          RAMBuffer__init__(b, c)
    /\ CInit
    /\ HInit
    /\ QInit
    /\ seq = None
    /\ prev = None
    /\ op = None
    /\ ret = <<>>
    /\ stage = "none"

BufNext ==
    \/ B_Load
    \/ \E frame_type \in {"sps_header", "frame"} : B_Write(frame_type)
    \/ \E start \in BOOLEAN : F_Switch(start)
    \/ F_Write
    \/ F_Clear

SpecBuf == BufInit /\ [][BufNext]_vars

(***************************************************************************)
(* SpecEvent: the usher process of a Filter in BY_EVENT mode, for events   *)
(* of 0..MaxEventFrames frames.                                            *)
(***************************************************************************)
EventInit ==
    /\ \E fraction \in Fractions : Filter__init__(fraction)
    /\ EventRememberer__init__
    /\ MInit
    /\ MotionRAMBuffer__init__
    /\ CInit
    /\ BInit
    /\ QInit
    /\ seq = None
    /\ prev = None
    /\ op = None
    /\ ret = <<>>
    /\ stage = "none"

EventNext ==
    \/ \E n \in 0..MaxEventFrames, human \in BOOLEAN :
          \E animal \in [1..n -> BOOLEAN] :
             U_Get(EventData(nevents, animal, human))
    \/ U_Process
    \/ U_Decide

SpecEvent == EventInit /\ [][EventNext]_vars

(***************************************************************************)
(* SpecRemember: proc_events of an EventRememberer.                        *)
(***************************************************************************)
RememberInit ==
    /\ EventRememberer__init__
    /\ EInit
    /\ MInit
    /\ MotionRAMBuffer__init__
    /\ CInit
    /\ BInit
    /\ QInit
    /\ seq = None
    /\ prev = None
    /\ op = None
    /\ ret = <<>>
    /\ stage = "none"

RememberNext ==
    \/ \E d \in EventDirs : P_Get(d)
    \/ P_Put

SpecRemember == RememberInit /\ [][RememberNext]_vars

(***************************************************************************)
(* SpecMotion: run_raw and run of a fresh MotionFilter on one frame.       *)
(***************************************************************************)
SmallThresholds == {5, 10}

SotvThresholds == {1, 300}

\* settings.iir_cutoff_hz, in Hz, and the framerates: the Nyquist
\* frequencies are 2 and 10
Cutoffs == {<<0 - 1, 1>>, <<0, 1>>, <<1, 2>>, <<2, 1>>, <<10, 1>>, <<15, 1>>}

Framerates == {4, 20}

MotionInit ==
    /\ \E small \in SmallThresholds, sotv_thr \in SotvThresholds,
          cutoff \in Cutoffs, rate \in Framerates, fr \in MotionFrames :
             MotionFilter__init__(small, sotv_thr, cutoff, rate, fr)
    /\ EInit
    /\ EventRememberer__init__
    /\ MotionRAMBuffer__init__
    /\ CInit
    /\ BInit
    /\ QInit
    /\ seq = None
    /\ prev = None
    /\ op = None
    /\ ret = <<>>
    /\ stage = "none"

MotionNext ==
    \/ M_RunRaw
    \/ M_Run

SpecMotion == MotionInit /\ [][MotionNext]_vars

(***************************************************************************)
(* SpecProc: the camera handing motion frames to MotionRAMBuffer.analyse   *)
(* and the thread _process_queue scoring and writing them.                 *)
(***************************************************************************)
ProcInit ==
    /\ MotionRAMBuffer__init__
    /\ MotionFilter__init__(5, 1, <<2, 1>>, 20,
                            [i \in 1..GridCells |-> [x |-> 0, y |-> 0]])
    /\ RAMBuffer__init__("motion", <<1, 1>>)
    /\ EInit
    /\ EventRememberer__init__
    /\ CInit
    /\ QInit
    /\ seq = None
    /\ prev = None
    /\ op = None
    /\ ret = <<>>
    /\ stage = "none"

\* MotionRAMBuffer.switch_stream(), called by empty_all_buffers from the
\* record thread
Proc_switch_stream ==
    /\ _active_stream' = [_active_stream EXCEPT !["motion"] = switch_stream(@)]
    /\ UNCHANGED <<rec_pc, rec_ret, current_path, event_dir, motion_start_time,
                   last_buffer_empty_t, now, is_motion, c2d_output_queue,
                   _event_counter, disk, ea_args, calls, steps>>
    /\ UNCHANGED <<qvars, svars, bvars, hvars>>

ProcNext ==
    \/ \E motion \in ProcFrames : analyse(motion)
    \/ Proc_switch_stream
    \/ \E ratio \in ElapsedRatios : _process_queue(ratio)

SpecProc == ProcInit /\ [][ProcNext]_vars

(***************************************************************************)
(* Properties.                                                             *)
(***************************************************************************)
LabelOf(s, i) == At(s, i).label

StatusOf(s, i) == At(s, i).motion_status

NoMotionFrame(s) == \A i \in Positions(s) : StatusOf(s, i) # "MOTION"

NumMotionFrames(s) == Cardinality({i \in Positions(s) : StatusOf(s, i) = "MOTION"})

LastOp == IF Len(op) > 0 THEN op[1] ELSE "none"

\* The index (field) of the frame of the worker's sequence that carries the
\* Frame object f.
IndexOfFrame(s, f) ==
    At(s, CHOOSE i \in Positions(s) : At(s, i).frame = f).index

\* C1: when the worker finishes a sequence, the output step appends to the
\* output queue exactly the sequence's ANIMAL or CONTEXT frames, in ascending
\* frame index, followed by one None; nothing at all if there is no ANIMAL
\* frame, which is also what the output step yields for every sequence
\* without ANIMAL frame that the queue holds at any time.
C1_OutputOfFinishedSequence ==
    /\ [][ (pc = "output" /\ pc' = "set") =>
          LET n == Len(output_queue)
              added == SubSeq(output_queue', n + 1, Len(output_queue'))
              AC == {i \in Positions(sequence) :
                        LabelOf(sequence, i) \in {"ANIMAL", "CONTEXT"}}
              k == Cardinality(AC)
          IN  /\ Len(output_queue') >= n
              /\ SubSeq(output_queue', 1, n) = output_queue
              /\ IF \A i \in Positions(sequence) : LabelOf(sequence, i) # "ANIMAL"
                 THEN added = <<>>
                 ELSE /\ Len(added) = k + 1
                      /\ added[k + 1] = None
                      /\ \A j \in 1..k :
                            \E i \in AC : added[j] = At(sequence, i).frame
                      /\ \A i \in AC :
                            \E j \in 1..k : added[j] = At(sequence, i).frame
                      /\ \A j \in 1..(k - 1) :
                            IndexOfFrame(sequence, added[j])
                              < IndexOfFrame(sequence, added[j + 1])
      ]_vars
    /\ [](\A s \in {current_sequence, sequence} \cup {queue[k] : k \in 1..Len(queue)} :
             (s # None /\ \A i \in Positions(s) : LabelOf(s, i) # "ANIMAL")
                => output_items(s) = <<>>)

\* C1 witness: a sequence classified with two classifier calls has been
\* output: its frames and the sentinel are on the output queue.
C1_Witness ==
    /\ pc = "set"
    /\ inference_count >= 2
    /\ output_queue = [k \in 1..__len__(sequence) |-> At(sequence, k - 1).frame]
                         \o <<None>>

\* C2: while a non-STILL frame is still unlabelled, get_highest_priority
\* returns the unlabelled frame of highest priority, the lowest index among
\* equals; the frames returned so far came in descending priority order
\* and none came twice.
C2_HighestPriorityOrder ==
    (LastOp = "get_highest_priority"
       /\ \E i \in Positions(prev) :
             LabelOf(prev, i) = "UNKNOWN" /\ StatusOf(prev, i) # "STILL")
    => LET r == ret[Len(ret)]
       IN  /\ r # None
           /\ LET lf == r[1]
                  U == {j \in Positions(prev) : LabelOf(prev, j) = "UNKNOWN"}
              IN  /\ lf.index \in U
                  /\ lf = At(prev, lf.index)
                  /\ \A j \in U : At(prev, j).priority <= lf.priority
                  /\ \A j \in U : At(prev, j).priority = lf.priority
                                    => lf.index <= j
                  /\ \A k \in 1..(Len(ret) - 1) :
                        /\ ret[k] # None
                        /\ ret[k][1].priority >= lf.priority
                        /\ ret[k][1].index # lf.index

\* C2 witness: three frames were returned, the second and third of equal
\* priority, and not in index order.
C2_Witness ==
    /\ LastOp = "get_highest_priority"
    /\ Len(ret) = 3
    /\ \A k \in 1..3 : ret[k] # None
    /\ ret[1][1].priority > ret[2][1].priority
    /\ ret[2][1].priority = ret[3][1].priority
    /\ ret[1][1].index > ret[2][1].index

\* C3: get_highest_priority returns None whenever every frame is labelled
\* and whenever all frames still unlabelled are STILL.
C3_NoneWhenExhausted ==
    (LastOp = "get_highest_priority"
       /\ \A i \in Positions(prev) :
             LabelOf(prev, i) # "UNKNOWN" \/ StatusOf(prev, i) = "STILL")
    => ret[Len(ret)] = None

\* C4: the classifier is called only on a frame that is unlabelled and not
\* STILL at the moment of the call, and at most once per MOTION frame of the
\* sequence.
C4_ClassifierOnlyOnUnlabelled ==
    /\ (pc = "loop" /\ frame # None)
          => /\ LabelOf(sequence, frame[1]) = "UNKNOWN"
             /\ StatusOf(sequence, frame[1]) # "STILL"
    /\ pc \in {"loop", "output", "set", "dec"}
          => inference_count <= NumMotionFrames(sequence)

\* C5: for every sequence taken from the queue the classification loop ends
\* and the worker comes back to waiting for the next sequence.
C5_WorkerReturnsToWaiting == (pc = "clear") ~> (pc = "get")

\* C6: label_as_animal(frame i) sets exactly the frames of index
\* max(0, i - smoothing_len) .. min(n - 1, i + smoothing_len) to ANIMAL and
\* leaves every other label as it was.
C6_LabelAsAnimalWindow ==
    LastOp = "label_as_animal"
    => LET i == At(prev, op[2]).index
           n == __len__(prev)
           lo == Max(0, i - prev.smoothing_len)
           hi == Min(n - 1, i + prev.smoothing_len)
       IN  /\ __len__(seq) = n
           /\ \A k \in 0..(n - 1) :
                 IF lo <= k /\ k <= hi
                 THEN LabelOf(seq, k) = "ANIMAL"
                 ELSE LabelOf(seq, k) = LabelOf(prev, k)

\* C6 witness: label_as_animal overwrote an EMPTY label inside the window
\* and left an EMPTY label outside it, the window being cut by the end of
\* the sequence.
C6_Witness ==
    /\ LastOp = "label_as_animal"
    /\ __len__(prev) >= 4
    /\ op[2] = __len__(prev) - 1
    /\ LabelOf(prev, op[2] - 1) = "EMPTY"
    /\ LabelOf(seq, op[2] - 1) = "ANIMAL"
    /\ LabelOf(prev, 0) = "EMPTY"
    /\ LabelOf(seq, 0) = "EMPTY"

\* C7: in the worker a frame becomes ANIMAL only on a positive decision of
\* the classifier for the classified frame; on a negative decision only the
\* classified frame changes, to EMPTY.
C7_LabelFollowsDecision ==
    [][ (pc = "loop" /\ frame # None /\ sequence' # sequence) =>
          LET decision == is_animal'[1]
              p == frame[1]
          IN  /\ decision
                   => LabelOf(sequence', p) = "ANIMAL"
              /\ ~decision
                   => /\ LabelOf(sequence', p) = "EMPTY"
                      /\ \A k \in Positions(sequence) \ {p} :
                            LabelOf(sequence', k) = LabelOf(sequence, k)
              /\ (\E k \in Positions(sequence) :
                     LabelOf(sequence', k) = "ANIMAL"
                       /\ LabelOf(sequence, k) # "ANIMAL")
                   => decision
      ]_vars

\* the maximal run of EMPTY/UNKNOWN frames of s around position k
IsGap(s, k) == LabelOf(s, k) \in {"EMPTY", "UNKNOWN"}

RunLo(s, k) ==
    CHOOSE a \in 0..k :
        (\A j \in a..k : IsGap(s, j)) /\ (a = 0 \/ ~IsGap(s, a - 1))

RunHi(s, k) ==
    CHOOSE b \in k..(__len__(s) - 1) :
        (\A j \in k..b : IsGap(s, j)) /\ (b = __len__(s) - 1 \/ ~IsGap(s, b + 1))

RunBetweenAnimals(s, k) ==
    /\ RunLo(s, k) > 0
    /\ LabelOf(s, RunLo(s, k) - 1) = "ANIMAL"
    /\ RunHi(s, k) < __len__(s) - 1
    /\ LabelOf(s, RunHi(s, k) + 1) = "ANIMAL"

\* C8: close_gaps relabels as ANIMAL every maximal run of EMPTY/UNKNOWN
\* frames between two ANIMAL frames of length at most 2 * smoothing_len;
\* every other frame keeps its label.
C8_CloseGaps ==
    LastOp = "close_gaps"
    => /\ __len__(seq) = __len__(prev)
       /\ \A k \in Positions(prev) :
             IF /\ IsGap(prev, k)
                /\ RunBetweenAnimals(prev, k)
                /\ RunHi(prev, k) - RunLo(prev, k) + 1 <= 2 * prev.smoothing_len
             THEN LabelOf(seq, k) = "ANIMAL"
             ELSE LabelOf(seq, k) = LabelOf(prev, k)

\* C8 witness: close_gaps closed a gap of two frames, and left alone the
\* frame before the first ANIMAL frame and the frame after the last.
C8_Witness ==
    /\ LastOp = "close_gaps"
    /\ __len__(prev) = 6
    /\ LabelOf(prev, 0) = "EMPTY" /\ LabelOf(seq, 0) = "EMPTY"
    /\ LabelOf(prev, 1) = "ANIMAL"
    /\ LabelOf(prev, 2) = "EMPTY" /\ LabelOf(seq, 2) = "ANIMAL"
    /\ LabelOf(prev, 3) = "EMPTY" /\ LabelOf(seq, 3) = "ANIMAL"
    /\ LabelOf(prev, 4) = "ANIMAL"
    /\ LabelOf(prev, 5) = "EMPTY" /\ LabelOf(seq, 5) = "EMPTY"

\* C8 witness of the other case: a gap of three frames between two ANIMAL
\* frames was left as it was.
C8_WitnessLongGap ==
    /\ LastOp = "close_gaps"
    /\ __len__(prev) >= 5
    /\ LabelOf(prev, 0) = "ANIMAL"
    /\ \A k \in 1..3 : IsGap(prev, k) /\ LabelOf(seq, k) = LabelOf(prev, k)
    /\ LabelOf(prev, 4) = "ANIMAL"

\* C9: add_context labels as CONTEXT exactly the min(context_len, f) frames
\* before the first ANIMAL frame f and the min(context_len, n - 1 - l) frames
\* after the last ANIMAL frame l; without an ANIMAL frame it labels nothing.
C9_AddContext ==
    LastOp = "add_context"
    => LET n == __len__(prev)
           A == {i \in Positions(prev) : LabelOf(prev, i) = "ANIMAL"}
       IN  /\ __len__(seq) = n
           /\ IF A = {}
              THEN \A k \in Positions(prev) : LabelOf(seq, k) = LabelOf(prev, k)
              ELSE LET f == CHOOSE i \in A : \A j \in A : i <= j
                       l == CHOOSE i \in A : \A j \in A : j <= i
                   IN  \A k \in Positions(prev) :
                         IF \/ (f - Min(prev.context_len, f) <= k /\ k < f)
                            \/ (l < k /\ k <= l + Min(prev.context_len, n - 1 - l))
                         THEN LabelOf(seq, k) = "CONTEXT"
                         ELSE LabelOf(seq, k) = LabelOf(prev, k)

\* what a step that runs end_motion_sequence() on the sequence c does
EndsSequence(c) ==
    /\ (__len__(c) > 0 /\ NoMotionFrame(c))
          => /\ queue' = queue
             /\ output_queue' = output_queue
             /\ current_sequence' = Sequence(_smoothing_len, _context_len)
             /\ UNCHANGED <<pc, sequence, frame, is_animal, inference_count>>
    /\ __len__(c) = 0 => UNCHANGED vars

\* C10: end_motion_sequence on a non-empty sequence without MOTION frame
\* queues nothing, leaves the worker and the output queue alone and starts a
\* fresh empty sequence; on an empty sequence it changes nothing; no sequence
\* without MOTION frame is ever queued or held by the worker.  The method
\* runs in EndMotionSequence and in a Put that fills the sequence.
C10_StillSequenceDiscarded ==
    /\ [][ /\ EndMotionSequence => EndsSequence(current_sequence)
           /\ \A inp \in PutInputs :
                 (PyGe(__len__(current_sequence) + 1, _sequence_len)
                    /\ Put(inp[1], inp[2]))
                 => EndsSequence(Sequence_put(current_sequence, Ref(nput + 1),
                                              inp[1], inp[2]))
         ]_vars
    /\ [](/\ \A k \in 1..Len(queue) :
                __len__(queue[k]) > 0 /\ ~NoMotionFrame(queue[k])
          /\ pc # "get" => ~NoMotionFrame(sequence))

\* C10 witness: frames were put, every sequence was ended, and nothing was
\* ever queued, classified or output.
C10_Witness ==
    /\ nput >= 2
    /\ __len__(current_sequence) = 0
    /\ remaining_frames = nput
    /\ queue = <<>>
    /\ pc = "get"
    /\ sequence = None
    /\ output_queue = <<>>

\* C11: after every put the current sequence holds fewer than _sequence_len
\* frames, and no queued sequence has more than _sequence_len frames.
C11_AtMostSequenceLen ==
    /\ ~PyGe(__len__(current_sequence), _sequence_len)
    /\ \A k \in 1..Len(queue) :
          __len__(queue[k]) * _sequence_len[2] <= _sequence_len[1]

\* C11 as the code has it: the current sequence holds fewer than
\* _sequence_len frames; the put that makes it reach or pass _sequence_len
\* ends it (queued if it has motion) and starts an empty sequence; a queued
\* sequence has fewer than _sequence_len + 1 frames, that is at most
\* _sequence_len rounded up.
C11_AtMostSequenceLenRoundedUp ==
    /\ [](/\ ~PyGe(__len__(current_sequence), _sequence_len)
          /\ \A k \in 1..Len(queue) :
                /\ __len__(queue[k]) >= 1
                /\ (__len__(queue[k]) - 1) * _sequence_len[2] < _sequence_len[1])
    /\ [][ \A inp \in PutInputs :
             LET cs == Sequence_put(current_sequence, Ref(nput + 1), inp[1], inp[2])
             IN  (PyGe(__len__(cs), _sequence_len) /\ Put(inp[1], inp[2]))
                 => /\ __len__(current_sequence') = 0
                    /\ queue' = IF has_motion(cs) THEN Append(queue, cs) ELSE queue
         ]_vars

\* C11 witness: _sequence_len is 4.5 and the fifth put has ended and queued
\* a sequence of five frames.
C11_Witness ==
    /\ _sequence_len = <<9, 2>>
    /\ nput = 5
    /\ Len(queue) = 1
    /\ __len__(queue[1]) = 5
    /\ __len__(current_sequence) = 0

\* the Sequence objects the queue object and its worker hold
HeldSequences ==
    {current_sequence} \cup {queue[k] : k \in 1..Len(queue)}
        \cup (IF sequence = None THEN {} ELSE {sequence})

\* C12: a STILL frame ends the current Sequence: no Sequence, current, queued
\* or with the worker, has a STILL frame followed by a later MOTION frame.
C12_StillFrameEndsSequence ==
    \A s \in HeldSequences :
       \A i \in Positions(s), j \in Positions(s) :
          ~(i < j /\ StatusOf(s, i) = "STILL" /\ StatusOf(s, j) = "MOTION")

\* C13: in every Sequence the frame at position k of the frame list has
\* index k (the k-th appended frame, counting from 0), whatever was put and
\* labelled, and the frames are in the order they were put.
C13_IndexIsPosition ==
    \A s \in HeldSequences :
       /\ s._next_index = __len__(s)
       /\ \A k \in Positions(s) : At(s, k).index = k
       /\ \A k \in Positions(s) \ {0} : At(s, k - 1).frame[1] + 1 = At(s, k).frame[1]

\* C13 witness: the worker holds a sequence of four frames that it has
\* labelled, and the current sequence has started again with one frame.
C13_Witness ==
    /\ sequence # None
    /\ __len__(sequence) = 4
    /\ sequence.labelled
    /\ At(sequence, 3).index = 3
    /\ __len__(current_sequence) = 1
    /\ At(current_sequence, 0).index = 0

\* C14: whenever is_idle() is True the queue is empty and the worker holds
\* no sequence taken from the queue whose classification or output is not
\* finished.
C14_IdleMeansDrained ==
    is_idle => /\ Len(queue) = 0
               /\ pc \notin {"clear", "loop", "output"}

\* C15: once the producer has stopped after ending its last sequence, the
\* queue is drained and the worker is back at waiting, is_idle() becomes
\* True.  In such a state no step of the worker is possible and the producer
\* takes none, so is_idle() becomes True only if it is True already; the
\* producer may stop after any call, so this is required of every state
\* with an empty current sequence, an empty queue and a waiting worker.
C15_DrainIsDetected ==
    (__len__(current_sequence) = 0 /\ Len(queue) = 0 /\ pc = "get")
        => is_idle

\* the Frame objects (their put numbers) of a Sequence, and those on the
\* output queue
FramesOf(s) == {At(s, i).frame[1] : i \in Positions(s)}

OutputFrames == {output_queue[k][1] : k \in {j \in 1..Len(output_queue) :
                                                output_queue[j] # None}}

\* C16: sequences are classified and emitted in the order they were queued.
\* Frames are numbered in put order and a sequence queued earlier holds the
\* lower numbers, so: the queue keeps the sequences in that order and the
\* worker takes its head; what has been output precedes, on the output
\* queue and in that order, every frame still queued or with the worker;
\* and the output queue grows only by the worker's output step, by frames of
\* the one sequence it holds followed by the sentinel.
C16_FifoOrder ==
    /\ [](/\ \A k \in 1..(Len(queue) - 1) :
                \A a \in FramesOf(queue[k]), b \in FramesOf(queue[k + 1]) : a < b
          /\ pc # "get" =>
                \A k \in 1..Len(queue) :
                   \A a \in FramesOf(sequence), b \in FramesOf(queue[k]) : a < b
          /\ \A j \in 1..Len(output_queue), k \in 1..Len(output_queue) :
                (j < k /\ output_queue[j] # None /\ output_queue[k] # None)
                   => output_queue[j][1] < output_queue[k][1]
          /\ \A a \in OutputFrames :
                /\ \A k \in 1..Len(queue) : \A b \in FramesOf(queue[k]) : a < b
                /\ pc \in {"clear", "loop", "output"}
                      => \A b \in FramesOf(sequence) : a < b)
    /\ [][ /\ queue' # queue =>
                \/ pc = "get" /\ pc' = "clear" /\ sequence' = Head(queue)
                      /\ queue' = Tail(queue)
                \/ pc' = pc /\ Len(queue') = Len(queue) + 1
                      /\ SubSeq(queue', 1, Len(queue)) = queue
           /\ output_queue' # output_queue =>
                /\ pc = "output" /\ pc' = "set"
                /\ LET n == Len(output_queue)
                       m == Len(output_queue')
                   IN  /\ m > n
                       /\ SubSeq(output_queue', 1, n) = output_queue
                       /\ output_queue'[m] = None
                       /\ \A k \in (n + 1)..(m - 1) :
                             /\ output_queue'[k] # None
                             /\ output_queue'[k][1] \in FramesOf(sequence)
         ]_vars

\* C16 witness: two sequences have been classified and output, one after
\* the other, and the worker is waiting again.
C16_Witness ==
    /\ pc = "get"
    /\ Cardinality({k \in 1..Len(output_queue) : output_queue[k] = None}) = 2
    /\ output_queue[Len(output_queue)] = None
    /\ Cardinality(OutputFrames) >= 3

\* C17: the calls of empty_all_buffers of one event: the first one is the
\* call at the start of the event and has start=True, every later one (a
\* periodic flush of the loop or the final flush) has start=False, all are
\* given the same directory, which is the event's, and every
\* write_inactive_stream of the running call writes a file of the directory
\* and with the is_start the call was given.
C17_StartOnlyOnFirstFlush ==
    /\ calls # <<>> =>
          /\ calls[1].site = "start"
          /\ calls[1].start = TRUE
          /\ calls[1].current_path = event_dir
    /\ \A k \in 2..Len(calls) :
          /\ calls[k].site \in {"loop", "final"}
          /\ calls[k].start = FALSE
          /\ calls[k].current_path = calls[1].current_path
    /\ \A k \in 1..Len(steps) :
          steps[k].op = "write_inactive_stream" =>
             /\ steps[k].path = calls[Len(calls)].current_path
             /\ steps[k].is_start = calls[Len(calls)].start

\* an event with a first flush, a periodic flush and the final flush, all
\* written
C17_Witness ==
    /\ rec_pc = "put"
    /\ Len(calls) >= 3
    /\ calls[1].site = "start"
    /\ calls[2].site = "loop"
    /\ calls[Len(calls)].site = "final"
    /\ Len(steps) = 2 * Len(Buffers)

\* the directories put on the output queue of CameraToDisk so far
Published == {c2d_output_queue[k] : k \in 1..Len(c2d_output_queue)}

\* the calls of empty_all_buffers of the event made from `site` of record()
CallsFrom(site) == {k \in 1..Len(calls) : calls[k].site = site}

\* the running call of empty_all_buffers has made its three switches and
\* its three writes
FlushDone == Len(steps) = 2 * Len(Buffers)

\* C18: the end of an event.  Leaving the motion loop, record() waits
\* _context_length_s and then calls the final flush; the directory is put on
\* the output queue only after exactly one final flush with start=False,
\* the last call of the event and complete, at least _context_length_s
\* after the call before it; no directory is put twice; and the directory
\* an event writes into (or the next event will write into) is none of the
\* published ones.
C18_PublishedOnceAfterFinalFlush ==
    /\ [](/\ \A j, k \in 1..Len(c2d_output_queue) :
                c2d_output_queue[j] = c2d_output_queue[k] => j = k
          /\ rec_pc # "next" => current_path \notin Published
          /\ rec_pc \notin {"init", "wait", "next"} =>
                /\ event_dir = current_path
                /\ \A k \in 1..Len(calls) :
                      calls[k].current_path \notin Published)
    /\ [][ (rec_pc = "trail_off" /\ rec_pc' # rec_pc) =>
             /\ now' = now + _context_length_s
             /\ calls' = Append(calls, [current_path |-> event_dir,
                                         start |-> FALSE, site |-> "final",
                                         t |-> now'])
             /\ c2d_output_queue' = c2d_output_queue ]_vars
    /\ [][ (c2d_output_queue' # c2d_output_queue) =>
             /\ c2d_output_queue' = Append(c2d_output_queue, event_dir)
             /\ CallsFrom("final") = {Len(calls)}
             /\ calls[Len(calls)].start = FALSE
             /\ calls[Len(calls)].current_path = event_dir
             /\ calls[Len(calls)].t >= calls[Len(calls) - 1].t + _context_length_s
             /\ FlushDone
             /\ \A k \in 1..Len(steps) : steps[k].path \in {None, event_dir} ]_vars

\* two events published, the first of them into event_1 because event_0 was
\* on disk before the program started
C18_Witness ==
    /\ rec_pc = "next"
    /\ Len(c2d_output_queue) = 2
    /\ c2d_output_queue[1] = Ref(1)
    /\ c2d_output_queue[2] = current_path
    /\ calls[Len(calls)].site = "final"
    /\ FlushDone

\* an event has been started and its directory is not on the output queue yet
InEvent == rec_pc \notin {"init", "wait", "next"}

AtSwitch == rec_pc \in {"switch_" \o Buffers[k] : k \in 1..Len(Buffers)}

\* C20: the operations of a call of empty_all_buffers are the switches of
\* the h264, raw and motion buffers, in this order, and only then the writes
\* of the three; each write reads the stream that the switch of its buffer
\* in this call made inactive, and that stream is still the inactive one;
\* and a step the record thread takes from a switch_stream call is that
\* switch and nothing else: no time passes, nothing is written or published
\* and no other call is started.
C20_SwitchedAsOneUnit ==
    /\ [](/\ Len(steps) <= 2 * Len(Buffers)
          /\ \A k \in 1..Len(steps) :
                IF k <= Len(Buffers)
                THEN /\ steps[k].op = "switch_stream"
                     /\ steps[k].buffer = Buffers[k]
                ELSE /\ steps[k].op = "write_inactive_stream"
                     /\ steps[k].buffer = Buffers[k - Len(Buffers)]
                     /\ steps[k].stream = steps[k - Len(Buffers)].stream
                     /\ steps[k].stream = _inactive_stream(steps[k].buffer)
          /\ AtSwitch => \A k \in 1..Len(steps) : steps[k].op = "switch_stream")
    /\ [][ (AtSwitch /\ rec_pc' # rec_pc) =>
             /\ Len(steps') = Len(steps) + 1
             /\ steps'[Len(steps')].op = "switch_stream"
             /\ \E b \in DOMAIN _active_stream :
                   _active_stream' = [_active_stream EXCEPT ![b] = 3 - @]
             /\ UNCHANGED <<now, calls, c2d_output_queue, current_path, disk>>
             /\ (rec_pc' \notin {"switch_" \o Buffers[k] : k \in 1..Len(Buffers)}) =>
                   Len(steps') = Len(Buffers) ]_vars

\* the second flush of an event, complete: its writes read stream 2 of each
\* buffer, which the first flush had made active
C20_Witness ==
    /\ FlushDone
    /\ Len(calls) >= 2
    /\ \A k \in 1..Len(Buffers) :
          /\ steps[k].stream = 2
          /\ steps[k + Len(Buffers)].stream = 2
          /\ _active_stream[Buffers[k]] = 1

\* C21: a switch_stream call on the buffer swaps the roles of its two
\* streams and changes the contents of neither, so that the next write call
\* goes to the stream that was inactive and the stream that becomes inactive
\* keeps its data; and _bytes_written is 0 after it.
C21_SwitchIsRoleSwap ==
    [][ (f_pc = "switch" /\ f_pc' = "write") =>
          /\ _active_stream'[buf] = _inactive_stream(buf)
          /\ streams' = streams
          /\ _bytes_written' = 0 ]_vars

\* C22: every write of the writing thread lands in the stream that is the
\* active one when the data is written: never in a stream that
\* switch_stream has made inactive (which is being, or has been, written to
\* the file and cleared).
C22_NoWriteIntoInactive ==
    [][ (nwritten' # nwritten) => w_ref = _active_stream[buf] ]_vars

\* what the last write_inactive_stream call appended to the file
Wrote == SubSeq(file, flush.before + 1, Len(file))

\* s is the end of t: the newest elements of t
IsSuffix(s, t) ==
    /\ Len(s) <= Len(t)
    /\ s = SubSeq(t, Len(t) - Len(s) + 1, Len(t))

\* a write_inactive_stream(is_start=True) call on the buffer has read the
\* inactive stream and written the file
StartFlushWritten == flush.outcome \in {"written", "returned"} /\ flush.is_start

\* C23: what write_inactive_stream(is_start=True) of the raw and of the
\* motion buffer appends to the file is the end of the inactive stream (its
\* newest elements and nothing older), made of whole elements, and not more
\* than context_length_s * framerate of them.
C23_ContextTrimmed ==
    (StartFlushWritten /\ buf \in {"raw", "motion"}) =>
       /\ IsSuffix(Wrote, flush.pre)
       /\ IF buf = "raw"
          THEN Len(Wrote) * ctx[2] <= ctx[1]
          ELSE /\ Len(Wrote) * ctx[2] <= _element_size * ctx[1]
               /\ Wrote # <<>> => Wrote[1].byte = 1

\* C24: an H264RAMBuffer.write_inactive_stream(is_start=True) call on an
\* inactive stream without SPS-header frame has appended nothing to the file
\* and has called logger.error, and it returns with the inactive stream
\* cleared.
C24_NoSpsDiscardsAndLogs ==
    /\ [](  (/\ buf = "h264"
              /\ StartFlushWritten
              /\ sps_frames(flush.pre) = {}) =>
                /\ Wrote = <<>>
                /\ flush.logged)
    /\ [][ (/\ buf = "h264"
            /\ StartFlushWritten
            /\ sps_frames(flush.pre) = {}
            /\ f_pc = "clear"
            /\ f_pc' # f_pc) =>
              /\ streams'[_inactive_stream(buf)] = <<>>
              /\ flush'.outcome = "returned" ]_vars

\* the index in the inactive stream of the first frame the last
\* write_inactive_stream call wrote
StartIndex == Len(flush.pre) - Len(Wrote)

\* the SPS-header frames of the inactive stream at or before the context
\* index
SpsBeforeContext ==
    {i \in sps_frames(flush.pre) : i <= context_index(flush.pre, ctx)}

\* C25: when the inactive stream holds an SPS-header frame, what
\* H264RAMBuffer.write_inactive_stream(is_start=True) appends to the file is
\* the stream from an SPS-header frame to its end, and that frame is the
\* last SPS header at or before the context index whenever there is one.
C25_StartsAtPrecedingSps ==
    (/\ buf = "h264"
     /\ StartFlushWritten
     /\ sps_frames(flush.pre) # {}) =>
       /\ IsSuffix(Wrote, flush.pre)
       /\ Wrote # <<>>
       /\ Wrote[1].frame_type = "sps_header"
       /\ SpsBeforeContext # {} =>
             /\ StartIndex \in SpsBeforeContext
             /\ \A i \in SpsBeforeContext : i <= StartIndex

\* the inactive stream the last write_inactive_stream call found holds
\* less than the context asked for: it is empty or shorter than
\* context_length_s * framerate elements
ShortOfContext ==
    IF buf = "motion"
    THEN Len(flush.pre) * ctx[2] < _element_size * ctx[1]
    ELSE Len(flush.pre) * ctx[2] < ctx[1]

\* C29: a write_inactive_stream(is_start=True) call that finds less than
\* the context in the inactive stream appends nothing to the file and
\* raises no exception, the stream is empty when it returns, and the record
\* thread is never ended by a write_inactive_stream call.
C29_ShortBufferDiscarded ==
    /\ [](f_pc # "dead")
    /\ []((/\ flush.is_start
           /\ flush.outcome \in {"written", "returned", "raised"}
           /\ ShortOfContext) =>
             /\ flush.outcome # "raised"
             /\ Wrote = <<>>)
    /\ [][ (f_pc = "clear" /\ f_pc' # f_pc) =>
             /\ streams'[_inactive_stream(buf)] = <<>>
             /\ f_pc' = "switch" ]_vars

\* the frames of the event at the indexes lst whose animal result is positive
PositiveAt(ev, lst) ==
    {i \in 1..Len(lst) : ev.raw_raster_frames[lst[i] + 1][1]}

\* lst up to and including its first index with a positive animal result,
\* the whole of lst when there is none
UntilFirstPositive(ev, lst) ==
    IF PositiveAt(ev, lst) = {} THEN lst
    ELSE SubSeq(lst, 1, CHOOSE i \in PositiveAt(ev, lst) :
                           \A j \in PositiveAt(ev, lst) : i <= j)

\* the indexes the spiral of _process_event visits for an event of n frames
SpiralOrder(n, fraction) ==
    IF fraction[1] <= 0 THEN <<n \div 2>>
    ELSE sort_from_centre(indices(n, fraction), n \div 2)

\* C26: once _process_event has returned for an event, the animal detector
\* has been called on the middle frame only when the fraction is <= 0, and
\* otherwise on the sampled indexes in centre-out order up to and including
\* the first one with a positive animal result, and on no frame after it;
\* with a positive fraction the value returned is True exactly when one of
\* the sampled frames has a positive animal result.
C26_SpiralStopsAtFirstAnimal ==
    (usher_pc = "decide") =>
        LET n == Len(event.raw_raster_frames)
            order == SpiralOrder(n, _event_fraction)
        IN  /\ detector_calls = UntilFirstPositive(event, order)
            /\ (_event_fraction[1] > 0 =>
                   result = Ref(PositiveAt(event, order) # {}))

\* one of the frames _process_event samples from the event being handled
\* has a positive animal result
SampledAnimal ==
    PositiveAt(event, SpiralOrder(Len(event.raw_raster_frames),
                                  _event_fraction)) # {}

\* C27: every event taken from the input queue gets exactly one outcome:
\* its directory is deleted and it is not put on the output queue when no
\* sampled frame has a positive animal result, it is put on the output queue
\* and not deleted otherwise; no event is left without an outcome by the
\* end of the usher process.
C27_OneOutcomePerEvent ==
    /\ [](usher_pc # "dead")
    /\ [][ (usher_pc = "decide" /\ usher_pc' # usher_pc) =>
             IF SampledAnimal
             THEN /\ filter_output_queue' = Append(filter_output_queue, event)
                  /\ deleted' = deleted
             ELSE /\ deleted' = deleted \cup {event.dir}
                  /\ filter_output_queue' = filter_output_queue ]_vars

\* opening or reading clip.dat or clip_vect.dat of the directory raises
\* IOError
IOErrorIn(d) == d.raw.error # "none" \/ d.vect.error # "none"

\* C28: when reading the files of an event directory raises an I/O error,
\* dir_to_event logs the error, no event for that directory is put on the
\* output queue, and proc_events goes on to the next directory.
C28_IOErrorSkipsEvent ==
    [][ (pe_pc = "put" /\ pe_pc' # pe_pc /\ IOErrorIn(pe_event_dir)) =>
          /\ er_log' = Append(er_log, pe_event_dir.dir)
          /\ er_output_queue' = er_output_queue
          /\ pe_pc' = "get" ]_vars

\* the square of the magnitude of a motion vector
Magnitude2(v) == v.x * v.x + v.y * v.y

ZeroVector == [x |-> 0, y |-> 0]

\* run_raw has been called on the frame
RanRaw == mf_stage \in {"run", "done"}

\* every vector of the frame has a magnitude below the small threshold
AllBelow ==
    \A i \in 1..Len(motion_frame) :
        Magnitude2(motion_frame[i]) < threshold_small * threshold_small

\* a frame all of whose vectors are below the small threshold gives
\* run_raw == 0 and run == False
BelowGivesNoMotion ==
    AllBelow =>
        /\ RanRaw => sotv = <<0, 0>>
        /\ mf_stage = "done" => mf_run = Ref(FALSE)

\* C30 as stated: run_raw zeroes exactly the vectors whose magnitude is
\* strictly below small_threshold, a vector whose magnitude equals
\* small_threshold survives, and a frame of vectors below small_threshold
\* gives run_raw == 0 and run == False.
C30_ZeroedStrictlyBelow ==
    /\ RanRaw =>
          \A i \in 1..Len(motion_frame) :
              filtered[i] =
                 IF Magnitude2(motion_frame[i]) < threshold_small * threshold_small
                 THEN ZeroVector ELSE motion_frame[i]
    /\ BelowGivesNoMotion

\* C30 amended: run_raw zeroes exactly the vectors whose magnitude does not
\* exceed small_threshold, so a vector whose magnitude equals small_threshold
\* is zeroed and only a vector strictly above it survives; a frame of vectors
\* below small_threshold gives run_raw == 0 and run == False.
C30_ZeroedUnlessAbove ==
    /\ RanRaw =>
          \A i \in 1..Len(motion_frame) :
              filtered[i] =
                 IF Magnitude2(motion_frame[i]) <= threshold_small * threshold_small
                 THEN ZeroVector ELSE motion_frame[i]
    /\ BelowGivesNoMotion

\* run_raw and run have run on a frame with a vector of magnitude equal to
\* small_threshold, which was zeroed, and a vector above it, which survived
C30_Witness ==
    /\ mf_stage = "done"
    /\ \E i \in 1..Len(motion_frame) :
          /\ Magnitude2(motion_frame[i]) = threshold_small * threshold_small
          /\ filtered[i] = ZeroVector
    /\ \E j \in 1..Len(motion_frame) :
          /\ Magnitude2(motion_frame[j]) > threshold_small * threshold_small
          /\ filtered[j] = motion_frame[j]

\* C38: an event with at least one raw frame, handled with a
\* detector_fraction in (0, 1], is not deleted unless the animal detector
\* has been called on at least one of its frames.
C38_ClassifiedBeforeDiscard ==
    [][ (/\ usher_pc = "decide"
         /\ deleted' # deleted
         /\ Len(event.raw_raster_frames) >= 1
         /\ _event_fraction[1] > 0
         /\ _event_fraction[1] <= _event_fraction[2]) =>
            detector_calls # <<>> ]_vars

\* element e2 is the one the writing thread wrote right after e1
Follows(e1, e2) ==
    IF buf = "motion"
    THEN \/ e2.id = e1.id /\ e2.byte = e1.byte + 1
         \/ e2.id = e1.id + 1 /\ e1.byte = _element_size /\ e2.byte = 1
    ELSE e2.id = e1.id + 1

\* no stream of the buffer has wrapped: all that was written fits in one
NoWrap ==
    IF buf = "motion" THEN nwritten * _element_size <= MotionSize
    ELSE nwritten <= VideoSize

\* C32: write_inactive_stream leaves the inactive stream empty when it
\* returns, for the three buffers and both values of is_start; and as long
\* as no stream has wrapped, the file of an event holds what was written to
\* the buffer in write order, each element once and with none missing
\* between two elements of the file.
C32_FlushedOnceInOrder ==
    /\ [][ (f_pc = "clear" /\ f_pc' = "switch") =>
             streams'[_inactive_stream(buf)] = <<>> ]_vars
    /\ [](NoWrap =>
            \A i \in 1..(Len(file) - 1) : Follows(file[i], file[i + 1]))

\* C39: the clip.h264 of an event is empty or begins with an SPS-header
\* frame after every flush of the event, also when the flush at the start
\* of the event discarded the stream and later flushes appended to the file.
C39_FileBeginsAtSps ==
    (buf = "h264" /\ file # <<>>) => file[1].frame_type = "sps_header"

\* C36: during an event no more than io_buffer_size_s seconds pass between
\* the switches of two consecutive empty_all_buffers calls (the start flush,
\* the periodic flushes and the final flush after the trail-off).
C36_SwitchedBeforeWrap ==
    InEvent =>
        \A k \in 2..Len(calls) : calls[k].t - calls[k - 1].t <= _buffer_secs

\* the positions of the ANIMAL frames of a Sequence
AnimalPositions(s) == {k \in Positions(s) : LabelOf(s, k) = "ANIMAL"}

\* C35: from the moment the worker has taken a sequence until its output
\* step, a frame of the sequence that is ANIMAL stays ANIMAL, whatever the
\* classifier answers for the frames classified later and whatever
\* close_gaps and add_context label: the set of ANIMAL frames only grows.
C35_AnimalNeverRelabelled ==
    [][ (pc = "loop" /\ sequence' # sequence) =>
          AnimalPositions(sequence) \subseteq AnimalPositions(sequence') ]_vars

\* the worker has classified a frame after an earlier one, the detector
\* has answered (False, False) for it, and ANIMAL frames of the sequence
\* are still there
C35_Witness ==
    /\ pc = "loop"
    /\ inference_count >= 2
    /\ is_animal = <<FALSE, FALSE>>
    /\ AnimalPositions(sequence) # {}
    /\ \E k \in Positions(sequence) : LabelOf(sequence, k) = "UNKNOWN"

\* the number of frames of the sequences q[i], q[i + 1], ...
RECURSIVE SumLen(_, _)
SumLen(q, i) == IF i > Len(q) THEN 0 ELSE __len__(q[i]) + SumLen(q, i + 1)

\* the frames of the sequences queued for classification and not yet fully
\* processed: those in the queue and the one the worker has taken until it
\* has subtracted its length
PendingFrames ==
    SumLen(queue, 1) + (IF pc = "get" THEN 0 ELSE __len__(sequence))

\* C37: _remaining_frames is the number of frames of the sequences queued
\* for classification and not yet fully processed; it is never negative and
\* is 0 whenever the queue is drained and the worker is waiting.
C37_RemainingFramesIsPending ==
    /\ remaining_frames = PendingFrames
    /\ remaining_frames >= 0
    /\ (Len(queue) = 0 /\ pc = "get") => remaining_frames = 0

\* iir_cutoff_hz <= 0 or iir_cutoff_hz >= framerate / 2
CutoffOutOfRange ==
    LET fc == mf_settings.iir_cutoff_hz
    IN  fc[1] <= 0 \/ 2 * fc[1] >= fc[2] * mf_settings.framerate

\* a normalised cutoff <<num, den, e>> (num / den + e * 1e-10, den > 0) is
\* strictly inside (0, 1)
StrictlyInsideUnit(w) ==
    /\ w[1] > 0 \/ (w[1] = 0 /\ w[3] > 0)
    /\ w[1] < w[2] \/ (w[1] = w[2] /\ w[3] < 0)

\* C31: a MotionFilter constructed with iir_cutoff_hz <= 0 or >=
\* framerate / 2 has logged one error and uses a normalised cutoff strictly
\* inside (0, 1); one constructed with a cutoff strictly inside
\* (0, framerate / 2) uses iir_cutoff_hz / (framerate / 2) unchanged and has
\* logged no error.
C31_CutoffCapped ==
    IF CutoffOutOfRange
    THEN Len(mf_log) = 1 /\ StrictlyInsideUnit(wn)
    ELSE /\ mf_log = <<>>
         /\ wn = <<2 * mf_settings.iir_cutoff_hz[1],
                   mf_settings.iir_cutoff_hz[2] * mf_settings.framerate, 0>>
         /\ StrictlyInsideUnit(wn)

\* a filter constructed with the cutoff at the Nyquist frequency, as in
\* test_cutoff_at_nyquist_fails, has been run
C31_Witness ==
    /\ mf_settings = [iir_cutoff_hz |-> <<10, 1>>, framerate |-> 20]
    /\ mf_log = <<"too high">>
    /\ wn = <<1, 1, 0 - 1>>
    /\ mf_stage = "done"


\* the pass of _process_queue that pops a frame
PopsFrame == Len(pq_log') = Len(pq_log) + 1

\* the rate limiter skips the frame at the head of the queue
Skipped == count_frames < skip_frames

\* the record the pass has appended to the active stream
LastRecord == streams'[_active_stream["motion"]][Len(streams'[_active_stream["motion"]])]

C34_SkipsWhenSlow ==
    \A i \in 1..(Len(pq_log) - 1) :
        pq_log[i].elapsed # None =>
            IF pq_log[i].elapsed[1] > pq_log[i].elapsed[2]
            THEN pq_log[i + 1].score = 0 - 1
            ELSE pq_log[i + 1].score # 0 - 1

\* C40: every frame handed to analyse is written as one record, whatever the
\* backlog: a frame is in the queue or has its record, none is dropped.
C40_NoFrameDropped ==
    /\ nanalysed = Len(_proc_queue) + Len(pq_log)
    /\ \A k \in 1..nanalysed :
         \/ \E i \in 1..Len(_proc_queue) : _proc_queue[i].id = k
         \/ \E i \in 1..Len(pq_log) : pq_log[i].id = k

====
